---- MODULE Spec2Model ----
(***************************************************************************)
(* Model of the IoT data logger's lifecycle engine:                        *)
(*   - the client StateMachine        (src/core/patterns/state_machine.py) *)
(*   - the OrchestrationStateMachine  (src/orchestration/state_machine.py) *)
(*   - the command-based DataLoggingOrchestrator and its three commands    *)
(*     (src/orchestration/orchestrator.py, src/orchestration/commands.py)  *)
(*   - the CircuitBreaker            (src/core/patterns/circuit_breaker.py) *)
(* Specifications:                                                         *)
(*   SpecSM   arbitrary transition() calls on one client StateMachine      *)
(*   SpecOSM  arbitrary transition_to() calls on one orchestration machine *)
(*   Spec     startup() / shutdown() calls on one orchestrator             *)
(*   SpecCB   calls made one after the other through one CircuitBreaker    *)
(*   SpecCBOverlap  calls through one CircuitBreaker that overlap          *)
(*   - the BaseProtocolClient   (src/protocols/base_protocol_client.py)    *)
(*   SpecAdapter  start(), stop(), signals and connection losses on one    *)
(*                protocol adapter                                         *)
(*   - the DataLoggingOrchestrator of services/orchestration_service.py    *)
(*   SpecService  change events handled while the adapters' tasks run      *)
(*   SpecServiceLive  the same under fair scheduling of the coroutines     *)
(*   - AsyncEventBus / ConfigurationSubject (src/core/patterns/observer.py) *)
(*   SpecBus  publish, subscribe, unsubscribe, start and stop calls on one *)
(*            bus while its consuming task runs                            *)
(*   SpecBusBurst  a burst of publish calls on a bus started once          *)
(*   - the triggers             (src/triggers/time_trigger.py,             *)
(*                               src/triggers/condition_trigger.py)        *)
(*   SpecTimeTrigger       should_trigger / reset_state calls over time    *)
(*   SpecConditionTrigger  should_trigger / reset_state calls on values    *)
(***************************************************************************)
EXTENDS Integers, Sequences, FiniteSets, TLC

VARIABLES
    state,              \* StateMachine._state
    sm_last,            \* last transition() call: [from, nxt, ret]
    sm_calls,           \* number of transition() calls made
    current_state,      \* OrchestrationStateMachine.current_state
    osm_last,           \* last transition_to() call: [from, nxt, ret]
    osm_calls,          \* number of direct transition_to() calls made
    frappe_service,     \* the constructor argument of the orchestrator
    executed_commands,  \* DataLoggingOrchestrator.executed_commands
    context,            \* DataLoggingOrchestrator.context (the keys the commands use)
    pc,                 \* position of the running coroutine, "idle" between calls
    idx,                \* position in command_sequence (1..3)
    rb_todo,            \* _rollback_commands: commands still to roll back
    rb_ret,             \* where _rollback_commands returns to
    in_except,          \* the coroutine is inside startup()'s except handler
    call,               \* the call running or last run: "none", "startup", "shutdown"
    result,             \* what that call returned: "none", "true", "false", "done", "raised"
    prev_call,          \* the call completed before it
    prev_result,        \* and what it returned
    events,             \* what the current call did so far, in order
    startups,           \* number of startup() calls made
    built,              \* adapters built so far, <<startup number, protocol group>>
    disconnected,       \* adapters on which disconnect() has been invoked
    configured,         \* adapters holding device configurations
    cb_state,           \* CircuitBreaker.state
    fail,               \* CircuitBreaker.fail
    ok,                 \* CircuitBreaker.ok
    last_fail_ts,       \* CircuitBreaker.last_fail_ts
    now,                \* time.time(), in seconds
    cb_last,            \* the last call through the breaker
    cb_streak,          \* failed calls since the last successful call
    cb_ho_successes,    \* successful calls since the breaker last went HalfOpen
    cb_calls,           \* number of calls made through the breaker
    cb_ticks,           \* number of times the clock advanced
    cb_inflight,        \* calls through the breaker that are inside fn
    connection_state,   \* BaseProtocolClient.connection_state
    running,            \* BaseProtocolClient.running
    retry_count,        \* BaseProtocolClient.retry_count
    error_callback,     \* BaseProtocolClient.error_callback is not None
    max_retries,        \* config.max_retries
    delay,              \* the delay last computed by _connect_with_retry
    start_pc,           \* position of the task running start()
    stop_pc,            \* position of the caller of stop()
    cwr_from,           \* who called _connect_with_retry: "start", "loop"
    steps,              \* the steps the current start() has begun, in order
    done,               \* the steps of it that returned without raising
    failed_step,        \* the step of it that raised, or "none"
    on_error,           \* what error_callback was last given in it, or "none"
    attempts,           \* _connect() calls of the current _connect_with_retry
    failed_attempts,    \* of these, the failed ones since the last success
    cwr_exhausted,      \* the caller whose _connect_with_retry ran out of retries
    iters,              \* iterations of the main loop begun by the current start()
    starts,             \* number of start() calls made
    stop_calls,         \* number of stop() calls made
    stop_start,         \* the start() call that was the latest at the last stop()
    drops,              \* number of connection losses
    waited,             \* how much of the current asyncio.sleep(delay) has gone by
    backoff_stopped,    \* running was cleared during the current backoff sleep
    overwait,           \* how much of the sleep went by after running was cleared
    data_callback,      \* BaseProtocolClient.data_callback is not None
    last_dispatch,      \* the last callback called from the main loop
    svc_clients,        \* DataLoggingOrchestrator.clients: the groups with an adapter
    svc_running,        \* running of each registered adapter
    svc_connection_state, \* connection_state of each registered adapter
    svc_pos,            \* where each coroutine inside an adapter's start() is
    h_pc,               \* position of notify() / _handle_change()
    h_group,            \* the group _handle_change() is restarting
    last_event,         \* the last event given to notify()
    svc_events,         \* number of events given to notify()
    svc_rounds,         \* main loop iterations made, counted round MaxRounds
    observers,          \* ConfigurationSubject._observers, in subscription order
    interests,          \* what each observer's get_interested_changes() returns
    event_queue,        \* AsyncEventBus._event_queue
    putters,            \* the events of the publishers waiting inside put()
    bus_running,        \* AsyncEventBus._running
    proc_pc,            \* position of the task running _process_events()
    cur_event,          \* the event _process_events() dequeued last
    subs_at_dequeue,    \* _observers as it was when that event was dequeued
    notification_tasks, \* the tasks notify_observers() created: [observer, st]
    notified,           \* notify() calls made for that event, per observer
    raised_in,          \* observers whose notify() raised for that event
    raised_before,      \* some notify() raised for an earlier event
    last_publish,       \* the last publish() call
    published,          \* number of publish() calls made
    sub_calls,          \* number of subscribe() and unsubscribe() calls made
    bus_starts,         \* number of start() calls made on the bus
    interval_seconds,   \* TimeBasedTriggerStrategy.interval_seconds
    last_trigger_time,  \* TimeBasedTriggerStrategy.last_trigger_time, <<>> for None
    tt_execution_count, \* TimeBasedTriggerStrategy.execution_count
    tt_now,             \* time.time(), in seconds
    tt_hist,            \* should_trigger calls since construction or reset: <<time, result>>
    tt_ticks,           \* number of times the clock advanced
    tt_resets,          \* number of reset_state() calls made
    tt_next_check,      \* what get_next_check_interval() returned last, in tenths of a second
    edge_type,          \* ConditionBasedTriggerStrategy.edge_type
    last_condition_state, \* ConditionBasedTriggerStrategy.last_condition_state, <<>> for None
    ct_execution_count, \* ConditionBasedTriggerStrategy.execution_count
    ct_values,          \* the values evaluated since construction or reset
    ct_fired,           \* what should_trigger returned for each of them
    ct_resets,          \* number of reset_state() calls made
    ct_errors,          \* for each of them, whether evaluating the expression raised
    ct_next_check       \* what get_next_check_interval() returned last, in tenths of a second

sm_vars  == <<state, sm_last, sm_calls>>
osm_vars == <<current_state, osm_last, osm_calls>>
orch_vars == <<frappe_service, executed_commands, context, pc, idx, rb_todo, rb_ret,
               in_except, call, result, prev_call, prev_result, events, startups,
               built, disconnected, configured>>
cb_vars == <<cb_state, fail, ok, last_fail_ts, now, cb_last, cb_streak, cb_ho_successes,
             cb_calls, cb_ticks, cb_inflight>>
\* the components besides the state machines and the orchestrator
ad_vars == <<connection_state, running, retry_count, error_callback, max_retries, delay,
             start_pc, stop_pc, cwr_from, steps, done, failed_step, on_error, attempts,
             failed_attempts, cwr_exhausted, iters, starts, stop_calls, stop_start, drops,
             waited, backoff_stopped, overwait, data_callback, last_dispatch>>
svc_vars == <<svc_clients, svc_running, svc_connection_state, svc_pos, h_pc, h_group,
              last_event, svc_events, svc_rounds>>
bus_vars == <<observers, interests, event_queue, putters, bus_running, proc_pc, cur_event,
              subs_at_dequeue, notification_tasks, notified, raised_in, raised_before, last_publish,
              published, sub_calls, bus_starts>>
tt_vars == <<interval_seconds, last_trigger_time, tt_execution_count, tt_now, tt_hist,
             tt_ticks, tt_resets, tt_next_check>>
ct_vars == <<edge_type, last_condition_state, ct_execution_count, ct_values, ct_fired,
             ct_resets, ct_errors, ct_next_check>>
trig_vars == <<tt_vars, ct_vars>>
comp_vars == <<cb_vars, ad_vars, svc_vars, bus_vars, trig_vars>>
vars == <<sm_vars, osm_vars, orch_vars, comp_vars>>

(***************************************************************************)
(* Bounds                                                                  *)
(***************************************************************************)
MaxSMCalls == 6
MaxStartups == 3
NumProtocols == 2
MaxCBCalls == 10
MaxTicks == 3
MaxStarts == 1
MaxStops == 1
MaxIters == 2
MaxDrops == 1
MaxMaxRetries == 8
MaxPartialWait == 1
MaxEvents == 2
MaxRounds == 2
NumObservers == 2
max_queue_size == 1
MaxPublishes == 2
MaxSubCalls == 1
MaxBusStarts == 1
MaxTTCalls == 3
MaxTTTicks == 3
MaxTTResets == 1
MaxEvals == 6
MaxCTResets == 1
MaxInFlight == 2

\* ProtocolClientConfig defaults
default_max_retries == 5
retry_delay == 1
max_retry_delay == 60
\* TimeBasedTriggerStrategy's default interval
default_interval_seconds == 60

Protocols == 1..NumProtocols

(***************************************************************************)
(* Helpers                                                                 *)
(***************************************************************************)
RECURSIVE Reverse(_)
Reverse(s) == IF s = <<>> THEN <<>> ELSE Append(Reverse(Tail(s)), Head(s))

\* dict iteration order of a protocol-keyed dict: here, ascending group number
RECURSIVE Ordered(_)
Ordered(S) ==
    IF S = {} THEN <<>>
    ELSE LET m == CHOOSE x \in S : \A y \in S : x <= y
         IN <<m>> \o Ordered(S \ {m})

Range(s) == {s[i] : i \in 1..Len(s)}

(***************************************************************************)
(* Client StateMachine                                                     *)
(***************************************************************************)
ClientState == {"DISCONNECTED", "CONNECTING", "CONNECTED", "CONFIGURING",
                "LOGGING", "RECONNECTING", "ERROR", "SHUTDOWN"}

trans ==
    [s \in ClientState |->
        CASE s = "DISCONNECTED" -> {"CONNECTING", "SHUTDOWN"}
          [] s = "CONNECTING"   -> {"CONNECTED", "ERROR"}
          [] s = "CONNECTED"    -> {"CONFIGURING", "LOGGING", "DISCONNECTED"}
          [] s = "CONFIGURING"  -> {"LOGGING", "ERROR", "CONNECTED"}
          [] s = "LOGGING"      -> {"CONFIGURING", "RECONNECTING", "DISCONNECTED"}
          [] s = "RECONNECTING" -> {"CONNECTED", "ERROR", "DISCONNECTED"}
          [] s = "ERROR"        -> {"CONNECTING", "SHUTDOWN"}
          [] s = "SHUTDOWN"     -> {}]

can_reflexive(s, nxt) == nxt \in trans[s] \/ nxt = s

can(s, nxt) == nxt \in trans[s]

\* transition(nxt): the new _state and the value returned
transition(s, nxt) ==
    IF can(s, nxt) THEN [state |-> nxt, ret |-> TRUE]
    ELSE [state |-> s, ret |-> FALSE]

NoCall == [from |-> "none", nxt |-> "none", ret |-> FALSE]

InitSM(initials) ==
    /\ state \in initials
    /\ sm_last = NoCall
    /\ sm_calls = 0

sm_transition ==
    /\ sm_calls < MaxSMCalls
    /\ \E nxt \in ClientState :
        LET r == transition(state, nxt) IN
        /\ state' = r.state
        /\ sm_last' = [from |-> state, nxt |-> nxt, ret |-> r.ret]
    /\ sm_calls' = sm_calls + 1
    /\ UNCHANGED <<osm_vars, orch_vars, comp_vars>>

(***************************************************************************)
(* OrchestrationStateMachine                                               *)
(***************************************************************************)
OrchestrationState == {"INITIALIZING", "DEVICE_DISCOVERY", "CLIENT_CREATION",
                       "CONFIGURATION_ENRICHMENT", "LOGGING_STARTUP",
                       "OPERATIONAL", "ERROR_RECOVERY", "SHUTDOWN"}

valid_transitions ==
    [s \in OrchestrationState |->
        CASE s = "INITIALIZING"             -> {"DEVICE_DISCOVERY", "SHUTDOWN"}
          [] s = "DEVICE_DISCOVERY"         -> {"CLIENT_CREATION", "ERROR_RECOVERY"}
          [] s = "CLIENT_CREATION"          -> {"CONFIGURATION_ENRICHMENT", "ERROR_RECOVERY"}
          [] s = "CONFIGURATION_ENRICHMENT" -> {"LOGGING_STARTUP", "ERROR_RECOVERY"}
          [] s = "LOGGING_STARTUP"          -> {"OPERATIONAL", "ERROR_RECOVERY"}
          [] s = "OPERATIONAL"              -> {"ERROR_RECOVERY", "SHUTDOWN"}
          [] s = "ERROR_RECOVERY"           -> {"DEVICE_DISCOVERY", "SHUTDOWN"}
          [] s = "SHUTDOWN"                 -> {}]

can_transition_to_any(cur, new_state) == new_state # cur

can_transition_to(cur, new_state) == new_state \in valid_transitions[cur]

\* transition_to(new_state): the new current_state and the value returned
transition_to(cur, new_state) ==
    IF can_transition_to(cur, new_state) THEN [state |-> new_state, ret |-> TRUE]
    ELSE [state |-> cur, ret |-> FALSE]

InitOSM ==
    /\ current_state = "INITIALIZING"
    /\ osm_last = NoCall
    /\ osm_calls = 0

osm_transition_to ==
    /\ osm_calls < MaxSMCalls
    /\ \E new_state \in OrchestrationState :
        LET r == transition_to(current_state, new_state) IN
        /\ current_state' = r.state
        /\ osm_last' = [from |-> current_state, nxt |-> new_state, ret |-> r.ret]
    /\ osm_calls' = osm_calls + 1
    /\ UNCHANGED <<sm_vars, orch_vars, comp_vars>>

(***************************************************************************)
(* Protocol adapters handed out by ProtocolFactory.create_client.          *)
(* commands.py imports src.protocols.factory.protocol_factory, which is    *)
(* not among the sources; the adapter it builds is modelled from the       *)
(* design's lifecycle capability (section 4.1): it offers disconnect and   *)
(* accepts and clears device configurations.                               *)
(***************************************************************************)
HasDisconnect(a) == TRUE
HasSetDeviceConfigurations(a) == TRUE
HasClearDeviceConfigurations(a) == TRUE

\* the adapters of a protocol-keyed dict, in iteration order
OrderedClients(cs) ==
    LET ps == Ordered({a[2] : a \in cs})
    IN [i \in 1..Len(ps) |-> CHOOSE a \in cs : a[2] = ps[i]]

(***************************************************************************)
(* Commands                                                                *)
(***************************************************************************)
Commands == {"DeviceDiscovery", "ClientCreation", "ConfigurationEnrichment"}

command_sequence ==
    << [cmd |-> "DeviceDiscovery",         target |-> "DEVICE_DISCOVERY"],
       [cmd |-> "ClientCreation",          target |-> "CLIENT_CREATION"],
       [cmd |-> "ConfigurationEnrichment", target |-> "CONFIGURATION_ENRICHMENT"] >>

Ev(kind, what, out) == [ev |-> kind, what |-> what, out |-> out]

\* result.get("success", False) of a command's result dict
Succeeded_always(out) == TRUE

Succeeded(out) == out = "ok"

\* _cleanup_clients: the adapters on which disconnect() is invoked; an
\* exception of disconnect() is caught and logged per adapter
cleanup_clients_none(clients) == {}

cleanup_clients(clients) == {a \in clients : HasDisconnect(a)}

\* _rollback_commands wraps each rollback() in try/except Exception: does an
\* exception raised by a rollback() leave _rollback_commands?
rollback_propagates_uncaught(raised) == raised

rollback_propagates(raised) == FALSE

\* reversed(self.executed_commands)
rollback_order_forward(cmds) == cmds

rollback_order(cmds) == Reverse(cmds)

(***************************************************************************)
(* DataLoggingOrchestrator                                                 *)
(***************************************************************************)
InitOrch ==
    /\ frappe_service \in {"service", "None"}
    /\ executed_commands = <<>>
    /\ context = [devices_by_protocol |-> {}, clients |-> {}, enriched_clients |-> {}]
    /\ pc = "idle"
    /\ idx = 1
    /\ rb_todo = <<>>
    /\ rb_ret = "none"
    /\ in_except = FALSE
    /\ call = "none"
    /\ result = "none"
    /\ prev_call = "none"
    /\ prev_result = "none"
    /\ events = <<>>
    /\ startups = 0
    /\ built = {}
    /\ disconnected = {}
    /\ configured = {}

\* an exception raised in startup()'s try body: control moves to the except
\* handler, which first awaits _rollback_commands()
EnterExcept ==
    /\ pc' = "rollback"
    /\ rb_todo' = rollback_order(executed_commands)
    /\ rb_ret' = "error_recovery"
    /\ in_except' = TRUE

\* startup() is called
startup_begin ==
    /\ pc = "idle"
    /\ startups < MaxStartups
    /\ startups' = startups + 1
    /\ prev_call' = call
    /\ prev_result' = result
    /\ call' = "startup"
    /\ result' = "none"
    /\ events' = <<>>
    /\ idx' = 1
    /\ in_except' = FALSE
    /\ pc' = "transition"
    /\ UNCHANGED <<frappe_service, executed_commands, context, rb_todo, rb_ret,
                   built, disconnected, configured, current_state>>
    /\ UNCHANGED <<sm_vars, osm_last, osm_calls, comp_vars>>

\* if not self.state_machine.transition_to(target_state): raise RuntimeError
startup_transition ==
    /\ pc = "transition"
    /\ LET target == command_sequence[idx].target
           r == transition_to(current_state, target)
       IN /\ current_state' = r.state
          /\ events' = Append(events, Ev("transition", target, IF r.ret THEN "ok" ELSE "fail"))
          /\ IF r.ret
             THEN /\ pc' = "execute"
                  /\ UNCHANGED <<rb_todo, rb_ret, in_except>>
             ELSE EnterExcept
    /\ UNCHANGED <<frappe_service, executed_commands, context, idx, call, result,
                   prev_call, prev_result, startups, built, disconnected, configured>>
    /\ UNCHANGED <<sm_vars, osm_last, osm_calls, comp_vars>>

\* what startup() does with the outcome of command.execute()
AfterExecute(cmd, out, newctx) ==
    /\ events' = Append(events, Ev("execute", cmd, out))
    /\ IF out = "raise"
       THEN /\ EnterExcept
            /\ UNCHANGED <<executed_commands, context, idx>>
       ELSE IF ~Succeeded(out)
       THEN /\ pc' = "rollback"
            /\ rb_todo' = rollback_order(executed_commands)
            /\ rb_ret' = "return_false"
            /\ UNCHANGED <<in_except, executed_commands, context, idx>>
       ELSE /\ context' = newctx
            /\ executed_commands' = Append(executed_commands, cmd)
            /\ IF idx < Len(command_sequence)
               THEN /\ idx' = idx + 1
                    /\ pc' = "transition"
               ELSE /\ idx' = idx
                    /\ pc' = "operational"
            /\ UNCHANGED <<rb_todo, rb_ret, in_except>>
    /\ UNCHANGED <<frappe_service, call, result, prev_call, prev_result, startups,
                   current_state>>
    /\ UNCHANGED <<sm_vars, osm_last, osm_calls, comp_vars>>

\* DeviceDiscoveryCommand.execute
execute_DeviceDiscovery ==
    /\ pc = "execute"
    /\ command_sequence[idx].cmd = "DeviceDiscovery"
    /\ UNCHANGED <<built, disconnected, configured>>
    /\ IF frappe_service = "None"
       THEN AfterExecute("DeviceDiscovery", "raise", context)
       ELSE \/ AfterExecute("DeviceDiscovery", "fail", context)
            \/ \E ps \in SUBSET Protocols :
                 AfterExecute("DeviceDiscovery", "ok",
                              [context EXCEPT !.devices_by_protocol = ps])

\* ClientCreationCommand.execute: adapters are created group by group; the
\* first failure cleans up the ones created so far and reports failure
execute_ClientCreation ==
    /\ pc = "execute"
    /\ command_sequence[idx].cmd = "ClientCreation"
    /\ UNCHANGED configured
    /\ LET order == Ordered(context.devices_by_protocol)
           n == Len(order)
       IN \E k \in 0..n :
            LET created_clients == {<<startups, order[i]>> : i \in 1..k}
            IN /\ built' = built \cup created_clients
               /\ IF k < n
                  THEN /\ disconnected' = disconnected \cup cleanup_clients(created_clients)
                       /\ AfterExecute("ClientCreation", "fail", context)
                  ELSE /\ UNCHANGED disconnected
                       /\ AfterExecute("ClientCreation", "ok",
                                       [context EXCEPT !.clients = created_clients])

\* ConfigurationEnrichmentCommand.execute: clients are enriched one by one;
\* the first failure reports failure and leaves the earlier ones enriched
execute_ConfigurationEnrichment ==
    /\ pc = "execute"
    /\ command_sequence[idx].cmd = "ConfigurationEnrichment"
    /\ UNCHANGED <<built, disconnected>>
    /\ LET order == OrderedClients(context.clients)
           n == Len(order)
       IN \E k \in 0..n :
            LET enriched_clients ==
                    {order[i] : i \in {j \in 1..k : HasSetDeviceConfigurations(order[j])}}
            IN /\ configured' = configured \cup enriched_clients
               /\ IF k < n
                  THEN AfterExecute("ConfigurationEnrichment", "fail", context)
                  ELSE AfterExecute("ConfigurationEnrichment", "ok",
                                    [context EXCEPT !.enriched_clients = enriched_clients])

\* one iteration of _rollback_commands: await command.rollback()
rollback_step ==
    /\ pc = "rollback"
    /\ rb_todo # <<>>
    /\ LET cmd == Head(rb_todo)
           order == OrderedClients(context.clients)
           n == Len(order)
       IN \E k \in 0..n :
            \* k: ConfigurationEnrichmentCommand.rollback clears k clients, then raises if k < n
            LET raised == cmd = "ConfigurationEnrichment" /\ k < n
            IN /\ (cmd # "ConfigurationEnrichment" => k = n)
               /\ disconnected' =
                    IF cmd = "ClientCreation"
                    THEN disconnected \cup cleanup_clients(context.clients)
                    ELSE disconnected
               /\ configured' =
                    IF cmd = "ConfigurationEnrichment"
                    THEN configured \ {order[i] : i \in {j \in 1..k :
                                            HasClearDeviceConfigurations(order[j])}}
                    ELSE configured
               /\ events' = Append(events, Ev("rollback", cmd, IF raised THEN "raise" ELSE "ok"))
               /\ IF rollback_propagates(raised)
                  THEN IF in_except \/ call = "shutdown"
                       THEN /\ result' = "raised"
                            /\ pc' = "idle"
                            /\ UNCHANGED <<rb_todo, rb_ret, in_except>>
                       ELSE /\ EnterExcept
                            /\ UNCHANGED result
                  ELSE /\ rb_todo' = Tail(rb_todo)
                       /\ UNCHANGED <<pc, rb_ret, in_except, result>>
    /\ UNCHANGED <<frappe_service, executed_commands, context, idx, call,
                   prev_call, prev_result, startups, built, current_state>>
    /\ UNCHANGED <<sm_vars, osm_last, osm_calls, comp_vars>>

\* the end of _rollback_commands: self.executed_commands.clear(), then back to the caller
rollback_done ==
    /\ pc = "rollback"
    /\ rb_todo = <<>>
    /\ executed_commands' = <<>>
    /\ CASE rb_ret = "return_false" ->
                /\ result' = "false"
                /\ pc' = "idle"
         [] rb_ret = "error_recovery" ->
                /\ pc' = "error_recovery"
                /\ UNCHANGED result
         [] rb_ret = "shutdown_done" ->
                /\ result' = "done"
                /\ pc' = "idle"
    /\ UNCHANGED <<frappe_service, context, idx, rb_todo, rb_ret, in_except, call,
                   prev_call, prev_result, events, startups, built, disconnected,
                   configured, current_state>>
    /\ UNCHANGED <<sm_vars, osm_last, osm_calls, comp_vars>>

\* after the loop: transition_to(OPERATIONAL), result ignored; return True
startup_operational ==
    /\ pc = "operational"
    /\ LET r == transition_to(current_state, "OPERATIONAL")
       IN /\ current_state' = r.state
          /\ events' = Append(events, Ev("transition", "OPERATIONAL",
                                         IF r.ret THEN "ok" ELSE "fail"))
    /\ result' = "true"
    /\ pc' = "idle"
    /\ UNCHANGED <<frappe_service, executed_commands, context, idx, rb_todo, rb_ret,
                   in_except, call, prev_call, prev_result, startups, built,
                   disconnected, configured>>
    /\ UNCHANGED <<sm_vars, osm_last, osm_calls, comp_vars>>

\* the except handler after its rollback: transition_to(ERROR_RECOVERY); return False
startup_error_recovery ==
    /\ pc = "error_recovery"
    /\ LET r == transition_to(current_state, "ERROR_RECOVERY")
       IN /\ current_state' = r.state
          /\ events' = Append(events, Ev("transition", "ERROR_RECOVERY",
                                         IF r.ret THEN "ok" ELSE "fail"))
    /\ result' = "false"
    /\ pc' = "idle"
    /\ UNCHANGED <<frappe_service, executed_commands, context, idx, rb_todo, rb_ret,
                   in_except, call, prev_call, prev_result, startups, built,
                   disconnected, configured>>
    /\ UNCHANGED <<sm_vars, osm_last, osm_calls, comp_vars>>

\* shutdown() is called: transition_to(SHUTDOWN), result ignored, then _rollback_commands()
shutdown ==
    /\ pc = "idle"
    /\ LET r == transition_to(current_state, "SHUTDOWN")
       IN /\ current_state' = r.state
          /\ events' = <<Ev("transition", "SHUTDOWN", IF r.ret THEN "ok" ELSE "fail")>>
    /\ prev_call' = call
    /\ prev_result' = result
    /\ call' = "shutdown"
    /\ result' = "none"
    /\ in_except' = FALSE
    /\ pc' = "rollback"
    /\ rb_todo' = rollback_order(executed_commands)
    /\ rb_ret' = "shutdown_done"
    /\ UNCHANGED <<frappe_service, executed_commands, context, idx, startups, built,
                   disconnected, configured>>
    /\ UNCHANGED <<sm_vars, osm_last, osm_calls, comp_vars>>

(***************************************************************************)
(* CircuitBreaker                                                          *)
(***************************************************************************)
\* BreakerConfig defaults
failure_threshold == 5
success_threshold == 3
timeout == 60

BreakerState == {"closed", "open", "half_open"}

\* the breaker's fields as one value
breaker == [state |-> cb_state, fail |-> fail, ok |-> ok, last_fail_ts |-> last_fail_ts]

\* time.time() - self.last_fail_ts > self.cfg.timeout
timeout_elapsed_inclusive(b, t) == t - b.last_fail_ts >= timeout

timeout_elapsed(b, t) == t - b.last_fail_ts > timeout

\* __call__, before the try: is the call let through to fn?
permits(b, t) == b.state # "open" \/ timeout_elapsed(b, t)

\* __call__, before the try: an Open breaker whose timeout elapsed goes HalfOpen
gate(b, t) ==
    IF b.state = "open" /\ timeout_elapsed(b, t)
    THEN [b EXCEPT !.state = "half_open", !.ok = 0]
    ELSE b

on_success_keeps_fail(b) ==
    IF b.state = "half_open"
    THEN IF b.ok + 1 >= success_threshold
         THEN [b EXCEPT !.ok = b.ok + 1, !.state = "closed", !.fail = 0]
         ELSE [b EXCEPT !.ok = b.ok + 1]
    ELSE b

\* _on_success
on_success(b) ==
    IF b.state = "half_open"
    THEN IF b.ok + 1 >= success_threshold
         THEN [b EXCEPT !.ok = b.ok + 1, !.state = "closed", !.fail = 0]
         ELSE [b EXCEPT !.ok = b.ok + 1]
    ELSE [b EXCEPT !.fail = 0]

\* _on_fail
on_fail(b, t) ==
    IF b.fail + 1 >= failure_threshold
    THEN [b EXCEPT !.fail = b.fail + 1, !.last_fail_ts = t, !.state = "open"]
    ELSE [b EXCEPT !.fail = b.fail + 1, !.last_fail_ts = t]

on_rejected_counts_failure(b, t) == on_fail(b, t)

\* raise RuntimeError("circuit-breaker: OPEN"): raised before the try, so
\* neither _on_success nor _on_fail runs
on_rejected(b, t) == b

NoBreaker == [state |-> "none", fail |-> 0, ok |-> 0, last_fail_ts |-> 0]
NoCBCall ==
    [pre |-> NoBreaker, at |-> 0, gated |-> NoBreaker, invoked |-> FALSE, outcome |-> "none"]

InitCB ==
    /\ cb_state = "closed"
    /\ fail = 0
    /\ ok = 0
    /\ last_fail_ts = 0
    /\ now = 0
    /\ cb_last = NoCBCall
    /\ cb_streak = 0
    /\ cb_ho_successes = 0
    /\ cb_calls = 0
    /\ cb_ticks = 0
    /\ cb_inflight = 0

SetBreaker(b) ==
    /\ cb_state' = b.state
    /\ fail' = b.fail
    /\ ok' = b.ok
    /\ last_fail_ts' = b.last_fail_ts

\* await breaker(fn): one whole call, fn succeeding or raising
cb_call ==
    /\ cb_calls < MaxCBCalls
    /\ cb_calls' = cb_calls + 1
    /\ IF permits(breaker, now)
       THEN \E fn_ok \in BOOLEAN :
              LET g == gate(breaker, now)
                  b == IF fn_ok THEN on_success(g) ELSE on_fail(g, now)
              IN /\ SetBreaker(b)
                 /\ cb_last' = [pre |-> breaker, at |-> now, gated |-> g, invoked |-> TRUE,
                                outcome |-> IF fn_ok THEN "ok" ELSE "fail"]
                 /\ cb_streak' = IF fn_ok THEN 0 ELSE cb_streak + 1
                 /\ cb_ho_successes' =
                        (IF g.state # breaker.state THEN 0 ELSE cb_ho_successes)
                        + (IF fn_ok THEN 1 ELSE 0)
       ELSE /\ SetBreaker(on_rejected(breaker, now))
            /\ cb_last' = [pre |-> breaker, at |-> now, gated |-> breaker, invoked |-> FALSE,
                           outcome |-> "rejected"]
            /\ UNCHANGED <<cb_streak, cb_ho_successes>>
    /\ UNCHANGED <<now, cb_ticks, cb_inflight>>
    /\ UNCHANGED <<sm_vars, osm_vars, orch_vars, ad_vars, svc_vars, bus_vars, trig_vars>>

\* time passes between calls
cb_tick ==
    /\ cb_ticks < MaxTicks
    /\ cb_ticks' = cb_ticks + 1
    /\ \E d \in {1, timeout - 1, timeout, timeout + 1} : now' = now + d
    /\ UNCHANGED <<cb_state, fail, ok, last_fail_ts, cb_last, cb_streak, cb_ho_successes,
                   cb_calls, cb_inflight>>
    /\ UNCHANGED <<sm_vars, osm_vars, orch_vars, ad_vars, svc_vars, bus_vars, trig_vars>>

\* Calls that overlap: __call__ is a coroutine, and a caller that is
\* suspended inside `await fn()` lets other callers of the same breaker in.
\* __call__ up to `await fn()`: the gate, then fn is entered or the call is
\* rejected
cb_enter ==
    /\ cb_calls < MaxCBCalls
    /\ cb_inflight < MaxInFlight
    /\ cb_calls' = cb_calls + 1
    /\ IF permits(breaker, now)
       THEN /\ SetBreaker(gate(breaker, now))
            /\ cb_inflight' = cb_inflight + 1
       ELSE /\ SetBreaker(on_rejected(breaker, now))
            /\ cb_inflight' = cb_inflight
    /\ UNCHANGED <<now, cb_last, cb_streak, cb_ho_successes, cb_ticks>>
    /\ UNCHANGED <<sm_vars, osm_vars, orch_vars, ad_vars, svc_vars, bus_vars, trig_vars>>

\* fn returned in one of the calls under way: _on_success()
cb_fn_returns ==
    /\ cb_inflight > 0
    /\ cb_inflight' = cb_inflight - 1
    /\ SetBreaker(on_success(breaker))
    /\ UNCHANGED <<now, cb_last, cb_streak, cb_ho_successes, cb_calls, cb_ticks>>
    /\ UNCHANGED <<sm_vars, osm_vars, orch_vars, ad_vars, svc_vars, bus_vars, trig_vars>>

\* fn raised in one of the calls under way: _on_fail()
cb_fn_raises ==
    /\ cb_inflight > 0
    /\ cb_inflight' = cb_inflight - 1
    /\ SetBreaker(on_fail(breaker, now))
    /\ UNCHANGED <<now, cb_last, cb_streak, cb_ho_successes, cb_calls, cb_ticks>>
    /\ UNCHANGED <<sm_vars, osm_vars, orch_vars, ad_vars, svc_vars, bus_vars, trig_vars>>

(***************************************************************************)
(* BaseProtocolClient: one adapter, the task running start(), callers of   *)
(* stop(), the signal handler and the MQTT network thread's disconnect     *)
(* callback.  The task gives up control at every await; an action is what  *)
(* the task does from one await to the next.                               *)
(***************************************************************************)
ConnectionState == {"disconnected", "connecting", "connected", "reconnecting", "error"}
MaxRetriesValues == {1, default_max_retries, MaxMaxRetries}

Min(a, b) == IF a <= b THEN a ELSE b

\* delay = min(retry_delay * 2 ** (retry_count - 1), max_retry_delay)
backoff_delay_uncapped(n) == retry_delay * 2^(n - 1)
backoff_delay(n) == Min(retry_delay * 2^(n - 1), max_retry_delay)

\* _cleanup(): await _disconnect(), then connection_state = DISCONNECTED.
\* _disconnect() of MQTTClient and of OPCUAClient catches every Exception
\* itself, so the except branch of _cleanup is not taken.
cleanup_disconnect_raises(cs) == cs
cleanup(cs) == "disconnected"

\* where start() goes after a step: on to the next statement of the try
\* block, or to the except handler when the step raised
successor ==
    [validate |-> "initialize", initialize |-> "connect_with_retry",
     connect |-> "setup", setup |-> "loop", loop |-> "cleanup"]
next_step_ignores_failure(step, step_ok) == successor[step]
next_step(step, step_ok) == IF step_ok THEN successor[step] ELSE "except"

\* the task is inside _run_main_loop
InLoop ==
    \/ start_pc \in {"loop_top", "process", "pause", "err_pause"}
    \/ cwr_from = "loop" /\ start_pc \in {"cwr_loop", "connect", "backoff"}

\* _safe_callback(callback, ...): does the exception the callback raised come
\* out of it?  except Exception catches it and logs it.
safe_callback_propagates(raises) == raises
safe_callback(raises) == FALSE

\* the except clause of start(): the exception is handled there, the finally
\* clause runs and start() returns
except_handler_reraises(step) == "cleanup_propagating"
except_handler(step) == "cleanup"

\* a callback called from the main loop: which one, whether it raised,
\* whether connection_state and the last error reported are as before it,
\* and where the loop goes next
Dispatch(kind, raised, cs_before, cs_after, oe_before, oe_after, nxt) ==
    [kind |-> kind, raised |-> raised, cs_kept |-> cs_after = cs_before,
     on_error_kept |-> oe_after = oe_before, next |-> nxt]
NoDispatch == Dispatch("none", FALSE, "none", "none", "none", "none", "none")

InitAdapter(retries) ==
    /\ connection_state = "disconnected"
    /\ running = FALSE
    /\ retry_count = 0
    /\ error_callback = FALSE
    /\ max_retries \in retries
    /\ delay = 0
    /\ start_pc = "idle"
    /\ stop_pc = "idle"
    /\ cwr_from = "none"
    /\ steps = <<>>
    /\ done = {}
    /\ failed_step = "none"
    /\ on_error = "none"
    /\ attempts = 0
    /\ failed_attempts = 0
    /\ cwr_exhausted = "none"
    /\ iters = 0
    /\ starts = 0
    /\ stop_calls = 0
    /\ stop_start = 0
    /\ drops = 0
    /\ waited = 0
    /\ backoff_stopped = FALSE
    /\ overwait = 0
    /\ data_callback = FALSE
    /\ last_dispatch = NoDispatch

AdapterOnly == UNCHANGED <<sm_vars, osm_vars, orch_vars, cb_vars, svc_vars, bus_vars, trig_vars>>

\* a lifecycle step of start() that returned or raised: the except handler
\* hands the exception to error_callback when there is one, and the finally
\* clause is next
StepOutcome(step, step_ok, callback) ==
    LET nxt == next_step(step, step_ok)
    IN /\ done' = IF step_ok THEN done \cup {step} ELSE done
       /\ failed_step' = IF step_ok THEN failed_step ELSE step
       /\ IF nxt = "except"
          THEN /\ on_error' = IF callback THEN step ELSE on_error
               /\ \E raises \in BOOLEAN :
                    /\ callback \/ ~raises
                    /\ start_pc' = IF callback /\ safe_callback(raises)
                                   THEN "cleanup_propagating"
                                   ELSE except_handler(step)
          ELSE /\ on_error' = on_error
               /\ start_pc' = nxt

\* start(data_callback, error_callback) up to its first await:
\* running = True, then _validate_config()
ad_start ==
    /\ start_pc \in {"idle", "returned", "raised"}
    /\ starts < MaxStarts
    /\ starts' = starts + 1
    /\ running' = TRUE
    /\ steps' = <<"validate">>
    /\ \E dcb \in BOOLEAN : data_callback' = dcb
    /\ last_dispatch' = NoDispatch
    /\ \E callback \in BOOLEAN, v_ok \in BOOLEAN :
         /\ error_callback' = callback
         /\ LET nxt == next_step("validate", v_ok)
            IN /\ done' = IF v_ok THEN {"validate"} ELSE {}
               /\ failed_step' = IF v_ok THEN "none" ELSE "validate"
               /\ IF nxt = "except"
                  THEN /\ on_error' = IF callback THEN "validate" ELSE "none"
                       /\ \E raises \in BOOLEAN :
                            /\ callback \/ ~raises
                            /\ start_pc' = IF callback /\ safe_callback(raises)
                                           THEN "cleanup_propagating"
                                           ELSE except_handler("validate")
                  ELSE /\ on_error' = "none"
                       /\ start_pc' = nxt
    /\ cwr_from' = "none"
    /\ cwr_exhausted' = "none"
    /\ attempts' = 0
    /\ failed_attempts' = 0
    /\ iters' = 0
    /\ backoff_stopped' = FALSE
    /\ UNCHANGED <<connection_state, retry_count, max_retries, delay, stop_pc,
                   stop_calls, stop_start, drops, waited, overwait>>
    /\ AdapterOnly

\* await self._initialize_client()
ad_initialize ==
    /\ start_pc = "initialize"
    /\ steps' = Append(steps, "initialize")
    /\ \E i_ok \in BOOLEAN : StepOutcome("initialize", i_ok, error_callback)
    /\ UNCHANGED <<connection_state, running, retry_count, error_callback, max_retries,
                   delay, stop_pc, cwr_from, attempts, failed_attempts, cwr_exhausted,
                   iters, starts, stop_calls, stop_start, drops>>
    /\ UNCHANGED <<waited, backoff_stopped, overwait>>
    /\ UNCHANGED <<data_callback, last_dispatch>>
    /\ AdapterOnly

\* _connect_with_retry() entered: retry_count = 0
EnterConnectWithRetry(from) ==
    /\ retry_count' = 0
    /\ cwr_from' = from
    /\ attempts' = 0
    /\ failed_attempts' = 0
    /\ backoff_stopped' = FALSE
    /\ start_pc' = "cwr_loop"

\* await self._connect_with_retry() in start()
ad_connect_with_retry ==
    /\ start_pc = "connect_with_retry"
    /\ steps' = Append(steps, "connect")
    /\ EnterConnectWithRetry("start")
    /\ UNCHANGED <<waited, overwait>>
    /\ UNCHANGED <<connection_state, running, error_callback, max_retries, delay,
                   stop_pc, done, failed_step, on_error, cwr_exhausted, iters, starts,
                   stop_calls, stop_start, drops>>
    /\ UNCHANGED <<data_callback, last_dispatch>>
    /\ AdapterOnly

\* while self.running and self.retry_count < self.config.max_retries:
\* CONNECTING and on to _connect(), or the loop ends and the method returns
ad_cwr_loop ==
    /\ start_pc = "cwr_loop"
    /\ IF running /\ retry_count < max_retries
       THEN /\ connection_state' = "connecting"
            /\ start_pc' = "connect"
            /\ UNCHANGED <<done, failed_step, on_error>>
       ELSE /\ connection_state' = connection_state
            /\ IF cwr_from = "start"
               THEN StepOutcome("connect", TRUE, error_callback)
               ELSE /\ start_pc' = "process"
                    /\ UNCHANGED <<done, failed_step, on_error>>
    /\ UNCHANGED <<running, retry_count, error_callback, max_retries, delay, stop_pc,
                   cwr_from, steps, attempts, failed_attempts, cwr_exhausted, iters,
                   starts, stop_calls, stop_start, drops>>
    /\ UNCHANGED <<waited, backoff_stopped, overwait>>
    /\ UNCHANGED <<data_callback, last_dispatch>>
    /\ AdapterOnly

\* the except clause of _run_main_loop with connection_state cs: the
\* exception goes to error_callback through _safe_callback, then sleep(1.0)
LoopExcept(kind, cs) ==
    \E raises \in BOOLEAN :
        /\ error_callback \/ ~raises
        /\ LET escapes == error_callback /\ safe_callback(raises)
               oe == IF error_callback THEN kind ELSE on_error
               nxt == IF escapes THEN "cleanup_propagating" ELSE "err_pause"
           IN /\ on_error' = oe
              /\ start_pc' = nxt
              /\ last_dispatch' =
                    IF error_callback
                    THEN Dispatch("error", raises, cs, cs, on_error, oe, nxt)
                    ELSE last_dispatch

\* await self._connect() returned or raised
ad_connect ==
    /\ start_pc = "connect"
    /\ attempts' = attempts + 1
    /\ \E c_ok \in BOOLEAN :
         IF c_ok
         THEN \* CONNECTED, retry_count = 0, return
              /\ connection_state' = "connected"
              /\ retry_count' = 0
              /\ failed_attempts' = 0
              /\ IF cwr_from = "start"
                 THEN StepOutcome("connect", TRUE, error_callback)
                 ELSE /\ start_pc' = "process"
                      /\ UNCHANGED <<done, failed_step, on_error>>
              /\ UNCHANGED <<delay, cwr_exhausted, waited, overwait, last_dispatch>>
         ELSE /\ retry_count' = retry_count + 1
              /\ failed_attempts' = failed_attempts + 1
              /\ IF retry_count + 1 >= max_retries
                 THEN \* ERROR, raise ConnectionError
                      /\ connection_state' = "error"
                      /\ cwr_exhausted' = cwr_from
                      /\ UNCHANGED <<delay, waited, overwait>>
                      /\ IF cwr_from = "start"
                         THEN /\ StepOutcome("connect", FALSE, error_callback)
                              /\ UNCHANGED last_dispatch
                         ELSE \* caught by the except clause of _run_main_loop
                              /\ LoopExcept("connect", "error")
                              /\ UNCHANGED <<done, failed_step>>
                 ELSE \* RECONNECTING, await asyncio.sleep(delay)
                      /\ connection_state' = "reconnecting"
                      /\ delay' = backoff_delay(retry_count + 1)
                      /\ waited' = 0
                      /\ overwait' = 0
                      /\ start_pc' = "backoff"
                      /\ UNCHANGED <<done, failed_step, on_error, cwr_exhausted,
                                     last_dispatch>>
    /\ UNCHANGED <<running, error_callback, max_retries, stop_pc, cwr_from, steps, iters,
                   starts, stop_calls, stop_start, drops, backoff_stopped>>
    /\ UNCHANGED data_callback
    /\ AdapterOnly

\* what ends the backoff sleep: asyncio.sleep(delay) returns when the whole
\* delay has gone by; nothing wakes it when running is cleared
sleep_over_when_stopped(w, d, stopped) == w = d \/ stopped
sleep_over(w, d, stopped) == w = d

\* time goes by during asyncio.sleep(delay)
ad_sleep ==
    /\ start_pc = "backoff"
    /\ ~sleep_over(waited, delay, backoff_stopped)
    /\ \E w \in {waited + 1, delay} :
         /\ w <= delay
         /\ w = delay \/ w <= MaxPartialWait
         /\ waited' = w
         /\ overwait' = IF backoff_stopped THEN overwait + (w - waited) ELSE overwait
    /\ UNCHANGED <<connection_state, running, retry_count, error_callback, max_retries,
                   delay, start_pc, stop_pc, cwr_from, steps, done, failed_step, on_error,
                   attempts, failed_attempts, cwr_exhausted, iters, starts, stop_calls,
                   stop_start, drops, backoff_stopped>>
    /\ UNCHANGED <<data_callback, last_dispatch>>
    /\ AdapterOnly

\* asyncio.sleep(delay) is over
ad_backoff_done ==
    /\ start_pc = "backoff"
    /\ sleep_over(waited, delay, backoff_stopped)
    /\ start_pc' = "cwr_loop"
    /\ UNCHANGED <<connection_state, running, retry_count, error_callback, max_retries,
                   delay, stop_pc, cwr_from, steps, done, failed_step, on_error, attempts,
                   failed_attempts, cwr_exhausted, iters, starts, stop_calls, stop_start,
                   drops>>
    /\ waited' = 0
    /\ overwait' = 0
    /\ UNCHANGED backoff_stopped
    /\ UNCHANGED <<data_callback, last_dispatch>>
    /\ AdapterOnly

\* await self._setup_monitoring()
ad_setup_monitoring ==
    /\ start_pc = "setup"
    /\ steps' = Append(steps, "setup")
    /\ \E s_ok \in BOOLEAN : StepOutcome("setup", s_ok, error_callback)
    \* _connect_with_retry is over: its delay and its count of attempts are gone
    /\ delay' = 0
    /\ attempts' = 0
    /\ UNCHANGED <<connection_state, running, retry_count, error_callback, max_retries,
                   stop_pc, cwr_from, failed_attempts, cwr_exhausted,
                   iters, starts, stop_calls, stop_start, drops>>
    /\ UNCHANGED <<waited, backoff_stopped, overwait>>
    /\ UNCHANGED <<data_callback, last_dispatch>>
    /\ AdapterOnly

\* await self._run_main_loop() entered
ad_run_main_loop ==
    /\ start_pc = "loop"
    /\ steps' = Append(steps, "loop")
    /\ start_pc' = "loop_top"
    /\ UNCHANGED <<connection_state, running, retry_count, error_callback, max_retries,
                   delay, stop_pc, cwr_from, done, failed_step, on_error, attempts,
                   failed_attempts, cwr_exhausted, iters, starts, stop_calls, stop_start,
                   drops>>
    /\ UNCHANGED <<waited, backoff_stopped, overwait>>
    /\ UNCHANGED <<data_callback, last_dispatch>>
    /\ AdapterOnly

\* while self.running: if self.connection_state != CONNECTED:
\* await self._connect_with_retry(); the loop ends when running is False
ad_loop_top ==
    /\ start_pc = "loop_top"
    /\ running => iters < MaxIters
    /\ IF ~running
       THEN /\ StepOutcome("loop", TRUE, error_callback)
            /\ UNCHANGED <<retry_count, cwr_from, attempts, failed_attempts, iters,
                           backoff_stopped>>
       ELSE /\ iters' = iters + 1
            /\ UNCHANGED <<done, failed_step, on_error>>
            /\ IF connection_state # "connected"
               THEN EnterConnectWithRetry("loop")
               ELSE /\ start_pc' = "process"
                    /\ UNCHANGED <<retry_count, cwr_from, attempts, failed_attempts,
                                   backoff_stopped>>
    /\ UNCHANGED <<connection_state, running, error_callback, max_retries, delay, stop_pc,
                   steps, cwr_exhausted, starts, stop_calls, stop_start, drops, waited,
                   overwait>>
    /\ UNCHANGED <<data_callback, last_dispatch>>
    /\ AdapterOnly

\* data = await self._process_data(), then data_callback through
\* _safe_callback when there are data and a callback, then sleep(0.1);
\* an exception goes to error_callback, then sleep(1.0)
ad_process_data ==
    /\ start_pc = "process"
    /\ \E p_ok \in BOOLEAN, data \in BOOLEAN :
         IF p_ok
         THEN IF data /\ data_callback
              THEN \E raises \in BOOLEAN :
                     IF safe_callback(raises)
                     THEN LoopExcept("data_callback", connection_state)
                     ELSE /\ start_pc' = "pause"
                          /\ on_error' = on_error
                          /\ last_dispatch' =
                                Dispatch("data", raises, connection_state,
                                         connection_state, on_error, on_error, "pause")
              ELSE /\ start_pc' = "pause"
                   /\ UNCHANGED <<on_error, last_dispatch>>
         ELSE /\ ~data
              /\ LoopExcept("process", connection_state)
    \* a _connect_with_retry called by this iteration is over: its delay and
    \* its count of attempts are gone
    /\ delay' = 0
    /\ attempts' = 0
    /\ UNCHANGED <<connection_state, running, retry_count, error_callback, max_retries,
                   stop_pc, cwr_from, steps, done, failed_step,
                   failed_attempts, cwr_exhausted, iters, starts, stop_calls, stop_start,
                   drops>>
    /\ UNCHANGED <<waited, backoff_stopped, overwait>>
    /\ UNCHANGED data_callback
    /\ AdapterOnly

\* asyncio.sleep(0.1) or asyncio.sleep(1.0) is over
ad_pause_done ==
    /\ start_pc \in {"pause", "err_pause"}
    /\ start_pc' = "loop_top"
    /\ UNCHANGED <<connection_state, running, retry_count, error_callback, max_retries,
                   delay, stop_pc, cwr_from, steps, done, failed_step, on_error, attempts,
                   failed_attempts, cwr_exhausted, iters, starts, stop_calls, stop_start,
                   drops>>
    /\ UNCHANGED <<waited, backoff_stopped, overwait>>
    /\ UNCHANGED <<data_callback, last_dispatch>>
    /\ AdapterOnly

\* finally: await self._cleanup(), and start() returns
ad_cleanup ==
    /\ start_pc \in {"cleanup", "cleanup_propagating"}
    /\ connection_state' = cleanup(connection_state)
    /\ steps' = Append(steps, "cleanup")
    /\ start_pc' = IF start_pc = "cleanup" THEN "returned" ELSE "raised"
    /\ UNCHANGED <<running, retry_count, error_callback, max_retries, delay, stop_pc,
                   cwr_from, done, failed_step, on_error, attempts, failed_attempts,
                   cwr_exhausted, iters, starts, stop_calls, stop_start, drops>>
    /\ UNCHANGED <<waited, backoff_stopped, overwait>>
    /\ UNCHANGED <<data_callback, last_dispatch>>
    /\ AdapterOnly

\* stop() up to its await: running = False, _cleanup() entered
ad_stop ==
    /\ stop_pc \in {"idle", "returned"}
    /\ stop_calls < MaxStops
    /\ stop_calls' = stop_calls + 1
    /\ stop_start' = starts
    /\ running' = FALSE
    /\ stop_pc' = "cleanup"
    /\ UNCHANGED <<connection_state, retry_count, error_callback, max_retries, delay,
                   start_pc, cwr_from, steps, done, failed_step, on_error, attempts,
                   failed_attempts, cwr_exhausted, iters, starts, drops>>
    /\ backoff_stopped' = (backoff_stopped \/ start_pc = "backoff")
    /\ UNCHANGED <<waited, overwait>>
    /\ UNCHANGED <<data_callback, last_dispatch>>
    /\ AdapterOnly

\* stop(): _disconnect() is over, connection_state = DISCONNECTED, return
ad_stop_cleanup ==
    /\ stop_pc = "cleanup"
    /\ connection_state' = cleanup(connection_state)
    /\ stop_pc' = "returned"
    /\ UNCHANGED <<running, retry_count, error_callback, max_retries, delay, start_pc,
                   cwr_from, steps, done, failed_step, on_error, attempts,
                   failed_attempts, cwr_exhausted, iters, starts, stop_calls, stop_start,
                   drops>>
    /\ UNCHANGED <<waited, backoff_stopped, overwait>>
    /\ UNCHANGED <<data_callback, last_dispatch>>
    /\ AdapterOnly

\* _signal_handler: SIGINT or SIGTERM
ad_signal_handler ==
    /\ running
    /\ running' = FALSE
    /\ UNCHANGED <<connection_state, retry_count, error_callback, max_retries, delay,
                   start_pc, stop_pc, cwr_from, steps, done, failed_step, on_error,
                   attempts, failed_attempts, cwr_exhausted, iters, starts, stop_calls,
                   stop_start, drops>>
    /\ backoff_stopped' = (backoff_stopped \/ start_pc = "backoff")
    /\ UNCHANGED <<waited, overwait>>
    /\ UNCHANGED <<data_callback, last_dispatch>>
    /\ AdapterOnly

\* MQTTClient._on_disconnect, called on the network thread when an
\* established connection is lost
ad_on_disconnect ==
    /\ connection_state = "connected"
    /\ drops < MaxDrops
    /\ drops' = drops + 1
    /\ connection_state' = "disconnected"
    /\ UNCHANGED <<running, retry_count, error_callback, max_retries, delay, start_pc,
                   stop_pc, cwr_from, steps, done, failed_step, on_error, attempts,
                   failed_attempts, cwr_exhausted, iters, starts, stop_calls, stop_start>>
    /\ UNCHANGED <<waited, backoff_stopped, overwait>>
    /\ UNCHANGED <<data_callback, last_dispatch>>
    /\ AdapterOnly

(***************************************************************************)
(* DataLoggingOrchestrator of services/orchestration_service.py: the       *)
(* adapter registry `clients`, the task made for each adapter by           *)
(* asyncio.create_task(client.start()), and notify() / _handle_change().   *)
(* An adapter's start() is followed here from await to await of its        *)
(* stages: before the main loop, in the main loop, in _cleanup.            *)
(***************************************************************************)
\* the protocol groups with a registered adapter, and one without
Groups == 1..NumProtocols
UnregisteredGroup == NumProtocols + 1

\* the coroutines that can be inside start() of one adapter
Invocations == {"task", "handler"}

\* events: metadata is None or a dict, protocol_type is the value under
\* "protocol_type", 0 when the key is absent
ChangeEvents ==
    [metadata : {TRUE}, protocol_type : {0} \cup Groups \cup {UnregisteredGroup}]
    \cup {[metadata |-> FALSE, protocol_type |-> 0]}
NoEvent == [metadata |-> FALSE, protocol_type |-> 0]

\* _handle_change: the adapter to stop and start again, 0 when it returns at
\* once
affected_client_any(evt, registry) ==
    IF registry = {} THEN 0 ELSE CHOOSE g \in registry : \A h \in registry : g <= h
affected_client(evt, registry) ==
    LET proto_type == IF evt.metadata THEN evt.protocol_type ELSE 0
    IN IF proto_type = 0 \/ proto_type \notin registry THEN 0 ELSE proto_type

InitService(registry) ==
    /\ svc_clients = registry
    /\ svc_running = [g \in registry |-> FALSE]
    /\ svc_connection_state = [g \in registry |-> "disconnected"]
    /\ svc_pos = [g \in registry |-> [task |-> "created", handler |-> "none"]]
    /\ h_pc = "idle"
    /\ h_group = 0
    /\ last_event = NoEvent
    /\ svc_events = 0
    /\ svc_rounds = 0

ServiceOnly == UNCHANGED <<sm_vars, osm_vars, orch_vars, cb_vars, ad_vars, bus_vars, trig_vars>>

\* start() up to its first await: running = True, _validate_config()
StartBegins(g, i) ==
    /\ svc_running' = [svc_running EXCEPT ![g] = TRUE]
    /\ \E v_ok \in BOOLEAN :
         svc_pos' = [svc_pos EXCEPT ![g][i] = IF v_ok THEN "pre_loop" ELSE "cleanup"]

\* the task made by asyncio.create_task(client.start()) starts to run
svc_task_start(g) ==
    /\ svc_pos[g]["task"] = "created"
    /\ StartBegins(g, "task")
    /\ UNCHANGED <<svc_clients, svc_connection_state, h_pc, h_group, last_event, svc_events,
                   svc_rounds>>
    /\ ServiceOnly

\* start(): _initialize_client, _connect_with_retry, _setup_monitoring.
\* _connect_with_retry connects, or runs out of retries, or returns at once
\* when running is False
svc_pre_loop(g, i) ==
    /\ svc_pos[g][i] = "pre_loop"
    /\ \E step_ok \in BOOLEAN, c_ok \in BOOLEAN :
         /\ svc_connection_state' =
               IF ~svc_running[g] THEN svc_connection_state
               ELSE [svc_connection_state EXCEPT
                        ![g] = IF c_ok THEN "connected" ELSE "error"]
         /\ svc_pos' = [svc_pos EXCEPT
                           ![g][i] = IF step_ok /\ (c_ok \/ ~svc_running[g])
                                     THEN "loop" ELSE "cleanup"]
    /\ UNCHANGED <<svc_clients, svc_running, h_pc, h_group, last_event, svc_events, svc_rounds>>
    /\ ServiceOnly

\* _run_main_loop: the while test, and one iteration when running is True
svc_loop(g, i) ==
    /\ svc_pos[g][i] = "loop"
    /\ IF ~svc_running[g]
       THEN /\ svc_pos' = [svc_pos EXCEPT ![g][i] = "cleanup"]
            /\ UNCHANGED <<svc_connection_state, svc_rounds>>
       ELSE \* the iterations are counted round MaxRounds; the loop goes on
            /\ svc_rounds' = IF svc_rounds < MaxRounds THEN svc_rounds + 1
                             ELSE 1
            /\ svc_pos' = svc_pos
            /\ IF svc_connection_state[g] # "connected"
               THEN \E c_ok \in BOOLEAN :
                      svc_connection_state' =
                          [svc_connection_state EXCEPT
                              ![g] = IF c_ok THEN "connected" ELSE "error"]
               ELSE svc_connection_state' = svc_connection_state
    /\ UNCHANGED <<svc_clients, svc_running, h_pc, h_group, last_event, svc_events>>
    /\ ServiceOnly

\* finally: _cleanup(); start() returns, to _handle_change when it was
\* awaited there
svc_cleanup(g, i) ==
    /\ svc_pos[g][i] = "cleanup"
    /\ svc_connection_state' = [svc_connection_state EXCEPT ![g] = cleanup(@)]
    /\ svc_pos' = [svc_pos EXCEPT ![g][i] = IF i = "handler" THEN "none" ELSE "returned"]
    /\ h_pc' = IF i = "handler" THEN "idle" ELSE h_pc
    /\ UNCHANGED <<svc_clients, svc_running, h_group, last_event, svc_events, svc_rounds>>
    /\ ServiceOnly

\* notify(event): _handle_change up to the await inside client.stop():
\* return at once, or running = False on the adapter of the event's group
svc_notify(evt) ==
    /\ h_pc = "idle"
    /\ svc_events < MaxEvents
    /\ svc_events' = svc_events + 1
    /\ last_event' = evt
    /\ LET g == affected_client(evt, svc_clients)
       IN IF g = 0
          THEN UNCHANGED <<svc_running, h_pc, h_group>>
          ELSE /\ svc_running' = [svc_running EXCEPT ![g] = FALSE]
               /\ h_group' = g
               /\ h_pc' = "stop"
    /\ UNCHANGED <<svc_clients, svc_connection_state, svc_pos, svc_rounds>>
    /\ ServiceOnly

\* _handle_change: client.stop() ends with connection_state = DISCONNECTED,
\* then client.start() up to its first await
svc_restart ==
    /\ h_pc = "stop"
    /\ svc_connection_state' = [svc_connection_state EXCEPT ![h_group] = cleanup(@)]
    /\ StartBegins(h_group, "handler")
    /\ h_pc' = "start"
    /\ UNCHANGED <<svc_clients, h_group, last_event, svc_events, svc_rounds>>
    /\ ServiceOnly

(***************************************************************************)
(* AsyncEventBus and ConfigurationSubject (src/core/patterns/observer.py)  *)
(* One consuming task runs _process_events(); publishers, subscribers and  *)
(* the caller of stop() are other tasks of the same event loop.  A task    *)
(* only loses control at an await, so each action runs from one await to   *)
(* the next.                                                               *)
(***************************************************************************)
ChangeType == {"device_added", "device_removed", "device_modified", "trigger_modified",
               "mapping_modified", "protocol_config_modified"}
\* the change kinds of the events published here
PublishedKinds == {"device_modified", "trigger_modified"}
Observers == 1..NumObservers
\* what an observer's get_interested_changes() may return
InterestChoices == {ChangeType, {"device_modified"}}

NoBusEvent == [change_type |-> "none", n |-> 0]
NoPublish == [n |-> 0, full |-> FALSE, outcome |-> "none", queue_kept |-> FALSE]

\* notify_observers: the observers a task is created for, in order
interested_observers_all(obs, ints, evt) == obs
interested_observers(obs, ints, evt) ==
    SelectSeq(obs, LAMBDA o : evt.change_type \in ints[o])

\* subscribe: the list after the call
subscribe_appends(obs, o) == Append(obs, o)
subscribe(obs, o) == IF o \in Range(obs) THEN obs ELSE Append(obs, o)

\* unsubscribe: list.remove() takes out the first occurrence
unsubscribe(obs, o) ==
    IF o \notin Range(obs) THEN obs
    ELSE LET i == CHOOSE j \in 1..Len(obs) : obs[j] = o /\ \A k \in 1..(j - 1) : obs[k] # o
         IN  SubSeq(obs, 1, i - 1) \o SubSeq(obs, i + 1, Len(obs))

\* _safe_notify_observer and the gather around it: what an exception out of
\* observer.notify() does to the other tasks and to _process_events()
safe_notify_observer_propagates(raises) ==
    [cancel_others |-> raises, loop |-> IF raises THEN "dead" ELSE "gather"]
safe_notify_observer(raises) == [cancel_others |-> FALSE, loop |-> "gather"]

\* AsyncEventBus.publish: await put() waits for a free slot when the queue is
\* full; QueueFull is raised by put_nowait() only, so the except clause of
\* publish() is never entered
put(queue, evt) ==
    IF Len(queue) < max_queue_size
    THEN [outcome |-> "enqueued", queue |-> Append(queue, evt)]
    ELSE [outcome |-> "blocked", queue |-> queue]

InitBus(subscribed) ==
    /\ observers = subscribed
    /\ event_queue = <<>>
    /\ putters = <<>>
    /\ bus_running = FALSE
    /\ proc_pc = "none"
    /\ cur_event = NoBusEvent
    /\ subs_at_dequeue = <<>>
    /\ notification_tasks = <<>>
    /\ notified = [o \in Observers |-> 0]
    /\ raised_in = {}
    /\ raised_before = FALSE
    /\ last_publish = NoPublish
    /\ published = 0
    /\ sub_calls = 0
    /\ bus_starts = 0

BusOnly == UNCHANGED <<sm_vars, osm_vars, orch_vars, cb_vars, ad_vars, svc_vars, trig_vars>>

\* AsyncEventBus.start() while the bus is not running
bus_start ==
    /\ ~bus_running
    /\ bus_starts < MaxBusStarts
    /\ bus_starts' = bus_starts + 1
    /\ bus_running' = TRUE
    /\ proc_pc' = "get"
    /\ UNCHANGED <<observers, interests, event_queue, putters, cur_event, subs_at_dequeue,
                   notification_tasks, notified, raised_in, raised_before, last_publish,
                   published, sub_calls>>
    /\ BusOnly

\* AsyncEventBus.stop() while the bus is running: the processing task is
\* cancelled at the await it is in, and with it the notification tasks that
\* are not done
bus_stop ==
    /\ bus_running
    /\ bus_running' = FALSE
    /\ proc_pc' = "cancelled"
    /\ notification_tasks' =
           [i \in 1..Len(notification_tasks) |->
               IF notification_tasks[i].st = "done" THEN notification_tasks[i]
               ELSE [notification_tasks[i] EXCEPT !.st = "cancelled"]]
    /\ UNCHANGED <<observers, interests, event_queue, putters, cur_event, subs_at_dequeue,
                   notified, raised_in, raised_before, last_publish, published,
                   sub_calls>>
    /\ UNCHANGED bus_starts
    /\ BusOnly

\* AsyncEventBus.publish(event), for a caller that publishes at most limit events
bus_publish_within(limit, kind) ==
    /\ published < limit
    /\ LET evt == [change_type |-> kind, n |-> published + 1]
           r == put(event_queue, evt)
       IN  /\ event_queue' = r.queue
           /\ putters' = IF r.outcome = "blocked" THEN Append(putters, evt) ELSE putters
           /\ last_publish' = [n |-> evt.n,
                               full |-> Len(event_queue) = max_queue_size,
                               outcome |-> r.outcome,
                               queue_kept |-> r.queue = event_queue]
    /\ published' = published + 1
    /\ UNCHANGED <<observers, interests, bus_running, proc_pc, cur_event, subs_at_dequeue,
                   notification_tasks, notified, raised_in, raised_before,
                   sub_calls>>
    /\ UNCHANGED bus_starts
    /\ BusOnly

\* AsyncEventBus.publish(event)
bus_publish(kind) == bus_publish_within(MaxPublishes, kind)

\* a publisher waiting inside put() goes on once the queue has a free slot
bus_put_resume ==
    /\ putters # <<>>
    /\ Len(event_queue) < max_queue_size
    /\ event_queue' = Append(event_queue, Head(putters))
    /\ putters' = Tail(putters)
    /\ UNCHANGED <<observers, interests, bus_running, proc_pc, cur_event, subs_at_dequeue,
                   notification_tasks, notified, raised_in, raised_before, last_publish,
                   published, sub_calls>>
    /\ UNCHANGED bus_starts
    /\ BusOnly

\* _process_events: get() returns an event, and notify_observers() creates a
\* task for every interested observer
bus_get ==
    /\ proc_pc = "get"
    /\ bus_running
    /\ event_queue # <<>>
    /\ LET evt == Head(event_queue)
           targets == interested_observers(observers, interests, evt)
       IN  /\ cur_event' = evt
           /\ notification_tasks' =
                  [i \in 1..Len(targets) |-> [observer |-> targets[i], st |-> "created"]]
    /\ event_queue' = Tail(event_queue)
    /\ subs_at_dequeue' = observers
    /\ notified' = [o \in Observers |-> 0]
    /\ raised_before' = (raised_before \/ raised_in # {})
    /\ raised_in' = {}
    /\ proc_pc' = "gather"
    /\ UNCHANGED <<observers, interests, putters, bus_running, last_publish, published, sub_calls>>
    /\ UNCHANGED bus_starts
    /\ BusOnly

\* a notification task starts: _safe_notify_observer calls observer.notify()
bus_notify_begin(i) ==
    /\ proc_pc = "gather"
    /\ i \in 1..Len(notification_tasks)
    /\ notification_tasks[i].st = "created"
    /\ notification_tasks' = [notification_tasks EXCEPT ![i].st = "running"]
    /\ notified' = [notified EXCEPT ![notification_tasks[i].observer] = @ + 1]
    /\ UNCHANGED <<observers, interests, event_queue, putters, bus_running, proc_pc,
                   cur_event, subs_at_dequeue, raised_in, raised_before, last_publish,
                   published, sub_calls>>
    /\ UNCHANGED bus_starts
    /\ BusOnly

\* observer.notify() returns or raises
bus_notify_end(i) ==
    /\ proc_pc = "gather"
    /\ i \in 1..Len(notification_tasks)
    /\ notification_tasks[i].st = "running"
    /\ \E raises \in BOOLEAN :
          LET r == safe_notify_observer(raises)
          IN  /\ notification_tasks' =
                     [j \in 1..Len(notification_tasks) |->
                         IF j = i THEN [notification_tasks[j] EXCEPT !.st = "done"]
                         ELSE IF r.cancel_others /\ notification_tasks[j].st # "done"
                              THEN [notification_tasks[j] EXCEPT !.st = "cancelled"]
                              ELSE notification_tasks[j]]
              /\ raised_in' = IF raises THEN raised_in \cup {notification_tasks[i].observer}
                              ELSE raised_in
              /\ proc_pc' = r.loop
    /\ UNCHANGED <<observers, interests, event_queue, putters, bus_running, cur_event,
                   subs_at_dequeue, notified, raised_before, last_publish, published, sub_calls>>
    /\ UNCHANGED bus_starts
    /\ BusOnly

\* gather returns once every task is done; task_done(), and the loop goes
\* back to get()
bus_task_done ==
    /\ proc_pc = "gather"
    /\ \A i \in 1..Len(notification_tasks) : notification_tasks[i].st = "done"
    /\ proc_pc' = "get"
    /\ UNCHANGED <<observers, interests, event_queue, putters, bus_running, cur_event,
                   subs_at_dequeue, notification_tasks, notified, raised_in, raised_before,
                   last_publish, published, sub_calls>>
    /\ UNCHANGED bus_starts
    /\ BusOnly

\* AsyncEventBus.subscribe(observer)
bus_subscribe(o) ==
    /\ sub_calls < MaxSubCalls
    /\ observers' = subscribe(observers, o)
    /\ sub_calls' = sub_calls + 1
    /\ UNCHANGED <<interests, event_queue, putters, bus_running, proc_pc, cur_event,
                   subs_at_dequeue, notification_tasks, notified, raised_in, raised_before,
                   last_publish, published>>
    /\ UNCHANGED bus_starts
    /\ BusOnly

\* AsyncEventBus.unsubscribe(observer)
bus_unsubscribe(o) ==
    /\ sub_calls < MaxSubCalls
    /\ observers' = unsubscribe(observers, o)
    /\ sub_calls' = sub_calls + 1
    /\ UNCHANGED <<interests, event_queue, putters, bus_running, proc_pc, cur_event,
                   subs_at_dequeue, notification_tasks, notified, raised_in, raised_before,
                   last_publish, published>>
    /\ UNCHANGED bus_starts
    /\ BusOnly

(***************************************************************************)
(* TimeBasedTriggerStrategy (src/triggers/time_trigger.py)                 *)
(* None is the empty sequence, a recorded value v is <<v>>.                *)
(***************************************************************************)
\* the configured intervals tried
IntervalValues == {10, default_interval_seconds}
\* by how much the clock moves between two calls
ClockSteps(interval) == {1, 5, 6, interval}

\* should_trigger: what it returns and what it leaves in last_trigger_time
time_should_trigger_from_last_call(last, current_time, interval) ==
    [ret |-> last = <<>> \/ (current_time - last[1]) >= interval,
     last |-> <<current_time>>]
time_should_trigger(last, current_time, interval) ==
    IF last = <<>>
    THEN [ret |-> TRUE, last |-> <<current_time>>]
    ELSE IF (current_time - last[1]) >= interval
         THEN [ret |-> TRUE, last |-> <<current_time>>]
         ELSE [ret |-> FALSE, last |-> last]

\* get_next_check_interval: 0.1 when nothing was recorded, else
\* max(0.1, interval_seconds - elapsed); in tenths of a second
next_check_interval(last, current_time, interval) ==
    IF last = <<>> THEN 1
    ELSE LET remaining == 10 * (interval - (current_time - last[1]))
         IN  IF remaining >= 1 THEN remaining ELSE 1

InitTimeTrigger(intervals) ==
    /\ interval_seconds \in intervals
    /\ last_trigger_time = <<>>
    /\ tt_execution_count = 0
    /\ tt_now = 0
    /\ tt_hist = <<>>
    /\ tt_ticks = 0
    /\ tt_resets = 0
    /\ tt_next_check = <<>>

TimeTriggerOnly ==
    UNCHANGED <<sm_vars, osm_vars, orch_vars, cb_vars, ad_vars, svc_vars, bus_vars, ct_vars>>

\* TimeBasedTriggerStrategy.should_trigger(data_sample)
tt_should_trigger ==
    /\ Len(tt_hist) < MaxTTCalls
    /\ LET r == time_should_trigger(last_trigger_time, tt_now, interval_seconds)
       IN  /\ last_trigger_time' = r.last
           /\ tt_execution_count' = IF r.ret THEN tt_execution_count + 1
                                    ELSE tt_execution_count
           /\ tt_hist' = Append(tt_hist, <<tt_now, r.ret>>)
    /\ UNCHANGED <<interval_seconds, tt_now, tt_ticks, tt_resets, tt_next_check>>
    /\ TimeTriggerOnly

\* TimeBasedTriggerStrategy.reset_state()
tt_reset_state ==
    /\ tt_resets < MaxTTResets
    /\ last_trigger_time' = <<>>
    /\ tt_execution_count' = 0
    /\ tt_hist' = <<>>
    /\ tt_resets' = tt_resets + 1
    /\ UNCHANGED <<interval_seconds, tt_now, tt_ticks, tt_next_check>>
    /\ TimeTriggerOnly

\* TimeBasedTriggerStrategy.get_next_check_interval()
tt_get_next_check_interval ==
    /\ tt_next_check' = <<next_check_interval(last_trigger_time, tt_now, interval_seconds)>>
    /\ UNCHANGED <<interval_seconds, last_trigger_time, tt_execution_count, tt_now, tt_hist,
                   tt_ticks, tt_resets>>
    /\ TimeTriggerOnly

\* time goes by
tt_tick ==
    /\ tt_ticks < MaxTTTicks
    /\ \E d \in ClockSteps(interval_seconds) : tt_now' = tt_now + d
    /\ tt_ticks' = tt_ticks + 1
    /\ UNCHANGED <<interval_seconds, last_trigger_time, tt_execution_count, tt_hist,
                   tt_resets, tt_next_check>>
    /\ TimeTriggerOnly

(***************************************************************************)
(* ConditionBasedTriggerStrategy (src/triggers/condition_trigger.py)       *)
(***************************************************************************)
\* edge_type: any value other than "rising" and "falling" behaves as "both"
EdgeTypes == {"rising", "falling", "both"}

\* _evaluate_condition: the value of the expression, False when evaluating
\* it raises
evaluate_condition(value, raises) == IF raises THEN FALSE ELSE value

\* _detect_edge
detect_edge_any_change(mode, prev_state, cur_state) ==
    prev_state # cur_state
detect_edge(mode, prev_state, cur_state) ==
    IF mode = "rising" THEN ~prev_state /\ cur_state
    ELSE IF mode = "falling" THEN prev_state /\ ~cur_state
    ELSE prev_state # cur_state

\* should_trigger, given the evaluated value
condition_should_trigger(last, cur_state, mode) ==
    IF last = <<>> THEN cur_state
    ELSE detect_edge(mode, last[1], cur_state)

InitConditionTrigger(modes) ==
    /\ edge_type \in modes
    /\ last_condition_state = <<>>
    /\ ct_execution_count = 0
    /\ ct_values = <<>>
    /\ ct_fired = <<>>
    /\ ct_resets = 0
    /\ ct_errors = <<>>
    /\ ct_next_check = <<>>

ConditionTriggerOnly ==
    UNCHANGED <<sm_vars, osm_vars, orch_vars, cb_vars, ad_vars, svc_vars, bus_vars, tt_vars>>

\* ConditionBasedTriggerStrategy.should_trigger(data_sample)
ct_should_trigger ==
    /\ Len(ct_values) < MaxEvals
    /\ \E value \in BOOLEAN, raises \in BOOLEAN :
          LET cur_state == evaluate_condition(value, raises)
              ret == condition_should_trigger(last_condition_state, cur_state, edge_type)
          IN  /\ last_condition_state' = <<cur_state>>
              /\ ct_execution_count' = IF ret THEN ct_execution_count + 1
                                       ELSE ct_execution_count
              /\ ct_values' = Append(ct_values, cur_state)
              /\ ct_fired' = Append(ct_fired, ret)
              /\ ct_errors' = Append(ct_errors, raises)
    /\ UNCHANGED <<edge_type, ct_resets, ct_next_check>>
    /\ ConditionTriggerOnly

\* ConditionBasedTriggerStrategy.reset_state()
ct_reset_state ==
    /\ ct_resets < MaxCTResets
    /\ last_condition_state' = <<>>
    /\ ct_execution_count' = 0
    /\ ct_values' = <<>>
    /\ ct_fired' = <<>>
    /\ ct_errors' = <<>>
    /\ ct_resets' = ct_resets + 1
    /\ UNCHANGED <<edge_type, ct_next_check>>
    /\ ConditionTriggerOnly

\* ConditionBasedTriggerStrategy.get_next_check_interval(): 1.0
ct_get_next_check_interval ==
    /\ ct_next_check' = <<10>>
    /\ UNCHANGED <<edge_type, last_condition_state, ct_execution_count, ct_values, ct_fired,
                   ct_resets, ct_errors>>
    /\ ConditionTriggerOnly

(***************************************************************************)
(* Specifications                                                          *)
(***************************************************************************)
\* the client state machine alone, constructed with any initial state
\* the components a specification is not about, as constructed
InitAdapterIdle == InitAdapter({default_max_retries})
InitServiceIdle == InitService({})
InitBusIdle == InitBus(<<>>) /\ interests = [o \in Observers |-> ChangeType]
InitTriggersIdle ==
    InitTimeTrigger({default_interval_seconds}) /\ InitConditionTrigger({"both"})
InitRest == InitBusIdle /\ InitTriggersIdle
InitComp == InitCB /\ InitAdapterIdle /\ InitServiceIdle /\ InitRest

InitSpecSM ==
    InitSM(ClientState) /\ InitOSM /\ InitOrch /\ frappe_service = "service" /\ InitComp
NextSM == sm_transition
SpecSM == InitSpecSM /\ [][NextSM]_vars

\* the orchestration state machine alone
InitSpecOSM ==
    InitSM({"DISCONNECTED"}) /\ InitOSM /\ InitOrch /\ frappe_service = "service" /\ InitComp
NextOSM == osm_transition_to
SpecOSM == InitSpecOSM /\ [][NextOSM]_vars

\* the orchestrator
Init == InitSM({"DISCONNECTED"}) /\ InitOSM /\ InitOrch /\ InitComp
Next ==
    \/ startup_begin
    \/ startup_transition
    \/ execute_DeviceDiscovery
    \/ execute_ClientCreation
    \/ execute_ConfigurationEnrichment
    \/ rollback_step
    \/ rollback_done
    \/ startup_operational
    \/ startup_error_recovery
    \/ shutdown
Spec == Init /\ [][Next]_vars

\* the circuit breaker, called by one caller at a time
InitSpecCB == InitSpecOSM
NextCB == cb_call \/ cb_tick
SpecCB == InitSpecCB /\ [][NextCB]_vars

\* the circuit breaker, called by callers that overlap
NextCBOverlap == cb_enter \/ cb_fn_returns \/ cb_fn_raises \/ cb_tick
SpecCBOverlap == InitSpecCB /\ [][NextCBOverlap]_vars

\* one adapter
InitSpecAdapter ==
    /\ InitSM({"DISCONNECTED"}) /\ InitOSM /\ InitOrch /\ frappe_service = "service"
    /\ InitCB /\ InitAdapter(MaxRetriesValues) /\ InitServiceIdle /\ InitRest
NextAdapter ==
    \/ ad_start
    \/ ad_initialize
    \/ ad_connect_with_retry
    \/ ad_cwr_loop
    \/ ad_connect
    \/ ad_sleep
    \/ ad_backoff_done
    \/ ad_setup_monitoring
    \/ ad_run_main_loop
    \/ ad_loop_top
    \/ ad_process_data
    \/ ad_pause_done
    \/ ad_cleanup
    \/ ad_stop
    \/ ad_stop_cleanup
    \/ ad_signal_handler
    \/ ad_on_disconnect
SpecAdapter == InitSpecAdapter /\ [][NextAdapter]_vars

\* the orchestration service with an adapter registered for every group
InitSpecService ==
    /\ InitSM({"DISCONNECTED"}) /\ InitOSM /\ InitOrch /\ frappe_service = "service"
    /\ InitCB /\ InitAdapterIdle /\ InitService(Groups) /\ InitRest
NextService ==
    \/ \E g \in Groups : svc_task_start(g)
    \/ \E g \in Groups, i \in Invocations : svc_pre_loop(g, i)
    \/ \E g \in Groups, i \in Invocations : svc_loop(g, i)
    \/ \E g \in Groups, i \in Invocations : svc_cleanup(g, i)
    \/ \E evt \in ChangeEvents : svc_notify(evt)
    \/ svc_restart
SpecService == InitSpecService /\ [][NextService]_vars

\* the same, with the event loop running every coroutine that can go on:
\* each adapter task, and the coroutine inside notify(); events arrive or
\* do not
SpecServiceLive ==
    /\ SpecService
    /\ \A g \in Groups : WF_vars(svc_task_start(g))
    /\ \A g \in Groups, i \in Invocations :
          WF_vars(svc_pre_loop(g, i) \/ svc_loop(g, i) \/ svc_cleanup(g, i))
    /\ WF_vars(svc_restart)

\* the event bus, every observer subscribed: observer 1 is the orchestrator,
\* interested in every change kind, the others are observers of one kind of
\* declared interests
InitSpecBus ==
    /\ InitSM({"DISCONNECTED"}) /\ InitOSM /\ InitOrch /\ frappe_service = "service"
    /\ InitCB /\ InitAdapterIdle /\ InitServiceIdle /\ InitTriggersIdle
    /\ InitBus(Ordered(Observers))
    /\ \E c \in InterestChoices :
          interests = [o \in Observers |-> IF o = 1 THEN ChangeType ELSE c]
NextBus ==
    \/ bus_start
    \/ bus_stop
    \/ \E kind \in PublishedKinds : bus_publish(kind)
    \/ bus_put_resume
    \/ bus_get
    \/ \E i \in 1..NumObservers : bus_notify_begin(i)
    \/ \E i \in 1..NumObservers : bus_notify_end(i)
    \/ bus_task_done
    \/ \E o \in Observers : bus_subscribe(o)
    \/ \E o \in Observers : bus_unsubscribe(o)
SpecBus == InitSpecBus /\ [][NextBus]_vars

\* A burst of publishes: two more than the queue holds, to a bus that is
\* started once and whose subscriptions do not change
BurstPublishes == max_queue_size + 2
NextBusBurst ==
    \/ bus_start
    \/ \E kind \in PublishedKinds : bus_publish_within(BurstPublishes, kind)
    \/ bus_put_resume
    \/ bus_get
    \/ \E i \in 1..NumObservers : bus_notify_begin(i)
    \/ \E i \in 1..NumObservers : bus_notify_end(i)
    \/ bus_task_done
SpecBusBurst == InitSpecBus /\ [][NextBusBurst]_vars

\* one time-interval trigger
InitSpecTimeTrigger ==
    /\ InitSM({"DISCONNECTED"}) /\ InitOSM /\ InitOrch /\ frappe_service = "service"
    /\ InitCB /\ InitAdapterIdle /\ InitServiceIdle /\ InitBusIdle
    /\ InitTimeTrigger(IntervalValues) /\ InitConditionTrigger({"both"})
NextTimeTrigger ==
    tt_should_trigger \/ tt_reset_state \/ tt_get_next_check_interval \/ tt_tick
SpecTimeTrigger == InitSpecTimeTrigger /\ [][NextTimeTrigger]_vars

\* one condition-edge trigger
InitSpecConditionTrigger ==
    /\ InitSM({"DISCONNECTED"}) /\ InitOSM /\ InitOrch /\ frappe_service = "service"
    /\ InitCB /\ InitAdapterIdle /\ InitServiceIdle /\ InitBusIdle
    /\ InitTimeTrigger({default_interval_seconds}) /\ InitConditionTrigger(EdgeTypes)
NextConditionTrigger ==
    ct_should_trigger \/ ct_reset_state \/ ct_get_next_check_interval
SpecConditionTrigger == InitSpecConditionTrigger /\ [][NextConditionTrigger]_vars

(***************************************************************************)
(* Properties                                                              *)
(***************************************************************************)
Events == Range(events)
StartupReturned == call = "startup" /\ pc = "idle"
ShutdownReturned == call = "shutdown" /\ pc = "idle"
\* the commands rolled back by the current call, in the order of their rollback
RolledBack ==
    LET rb == SelectSeq(events, LAMBDA e : e.ev = "rollback")
    IN [i \in 1..Len(rb) |-> rb[i].what]
\* the commands executed by the current call, in the order of their execution
Executed ==
    LET ex == SelectSeq(events, LAMBDA e : e.ev = "execute")
    IN [i \in 1..Len(ex) |-> ex[i].what]
ExecutedOk(cmd) == Ev("execute", cmd, "ok") \in Events
ExecutedBad(cmd) == Ev("execute", cmd, "fail") \in Events \/ Ev("execute", cmd, "raise") \in Events
IsPrefix(s, t) == Len(s) <= Len(t) /\ s = SubSeq(t, 1, Len(s))
\* the adapters built by the current startup() call
BuiltNow == {a \in built : a[1] = startups}

\* the transition tables as the design states them (sections 4.3 and 4.5)
ClientAllowed ==
    [s \in ClientState |->
        CASE s = "DISCONNECTED" -> {"CONNECTING", "SHUTDOWN"}
          [] s = "CONNECTING"   -> {"CONNECTED", "ERROR"}
          [] s = "CONNECTED"    -> {"CONFIGURING", "LOGGING", "DISCONNECTED"}
          [] s = "CONFIGURING"  -> {"LOGGING", "ERROR", "CONNECTED"}
          [] s = "LOGGING"      -> {"CONFIGURING", "RECONNECTING", "DISCONNECTED"}
          [] s = "RECONNECTING" -> {"CONNECTED", "ERROR", "DISCONNECTED"}
          [] s = "ERROR"        -> {"CONNECTING", "SHUTDOWN"}
          [] OTHER              -> {}]
OrchAllowed ==
    [s \in OrchestrationState |->
        CASE s = "INITIALIZING"             -> {"DEVICE_DISCOVERY", "SHUTDOWN"}
          [] s = "DEVICE_DISCOVERY"         -> {"CLIENT_CREATION", "ERROR_RECOVERY"}
          [] s = "CLIENT_CREATION"          -> {"CONFIGURATION_ENRICHMENT", "ERROR_RECOVERY"}
          [] s = "CONFIGURATION_ENRICHMENT" -> {"LOGGING_STARTUP", "ERROR_RECOVERY"}
          [] s = "LOGGING_STARTUP"          -> {"OPERATIONAL", "ERROR_RECOVERY"}
          [] s = "OPERATIONAL"              -> {"ERROR_RECOVERY", "SHUTDOWN"}
          [] s = "ERROR_RECOVERY"           -> {"DEVICE_DISCOVERY", "SHUTDOWN"}
          [] OTHER                          -> {}]
\* the startup order as the design states it (section 4.5)
StartupOrder == <<"DeviceDiscovery", "ClientCreation", "ConfigurationEnrichment">>
MatchingState == <<"DEVICE_DISCOVERY", "CLIENT_CREATION", "CONFIGURATION_ENRICHMENT">>
PositionOf(cmd) == CHOOSE j \in 1..3 : StartupOrder[j] = cmd

\* C1: every transition(T) call of the client state machine made in state S
\* returns true and moves to T iff T is in the allowed set of S, otherwise it
\* returns false and leaves the state S; and a machine in Shutdown never
\* leaves Shutdown.
C1_CallRespectsTable ==
    sm_last # NoCall =>
        /\ sm_last.ret = (sm_last.nxt \in ClientAllowed[sm_last.from])
        /\ state = (IF sm_last.nxt \in ClientAllowed[sm_last.from]
                    THEN sm_last.nxt ELSE sm_last.from)
C1_ClientTransitions ==
    /\ []C1_CallRespectsTable
    /\ [][state = "SHUTDOWN" => state' = "SHUTDOWN"]_vars
\* a machine that moved into Shutdown and then had a transition rejected
C1_Witness ==
    /\ sm_calls >= 2
    /\ sm_last = [from |-> "SHUTDOWN", nxt |-> "CONNECTING", ret |-> FALSE]
    /\ state = "SHUTDOWN"

\* C2: starting from Initializing, every transition_to(T) call of the
\* orchestration state machine made in state S returns true and sets
\* current_state to T iff T is in the allowed set of S, otherwise it returns
\* false and leaves current_state unchanged.
C2_OrchTransitions ==
    osm_last # NoCall =>
        /\ osm_last.ret = (osm_last.nxt \in OrchAllowed[osm_last.from])
        /\ current_state = (IF osm_last.nxt \in OrchAllowed[osm_last.from]
                            THEN osm_last.nxt ELSE osm_last.from)
\* the machine walked Initializing .. Operational and was then shut down
C2_Witness ==
    /\ osm_last = [from |-> "OPERATIONAL", nxt |-> "SHUTDOWN", ret |-> TRUE]
    /\ current_state = "SHUTDOWN"

\* C3: whenever all three commands succeeded and startup() returned true,
\* the orchestration state on return is Operational.
C3_OperationalOnSuccess ==
    (/\ StartupReturned
     /\ result = "true"
     /\ \A j \in 1..3 : ExecutedOk(StartupOrder[j]))
    => current_state = "OPERATIONAL"

\* C4: whenever startup() returned false, the orchestration state on return
\* is ErrorRecovery.
C4_ErrorRecoveryOnFailure ==
    (StartupReturned /\ result = "false") => current_state = "ERROR_RECOVERY"

\* C5: when the k-th startup command fails, the commands rolled back are
\* exactly commands k-1, ..., 1, each once, in that order (the failing command
\* and the later ones are not rolled back).
C5_RollbackOrder ==
    \A k \in 1..3 :
        (call = "startup" /\ ExecutedBad(StartupOrder[k])) =>
            LET expected == Reverse(SubSeq(StartupOrder, 1, k - 1))
            IN /\ IsPrefix(RolledBack, expected)
               /\ (pc = "idle" => RolledBack = expected)
\* Configuration Enrichment failed and Client Creation was rolled back before Device Discovery
C5_Witness ==
    /\ StartupReturned
    /\ ExecutedBad("ConfigurationEnrichment")
    /\ RolledBack = <<"ClientCreation", "DeviceDiscovery">>

C7_StartupOrder ==
    call = "startup" =>
        /\ IsPrefix(Executed, StartupOrder)
        /\ \A i \in 1..Len(events) :
              events[i].ev = "execute" =>
                 LET j == PositionOf(events[i].what)
                 IN /\ i > 1
                    /\ events[i - 1] = Ev("transition", MatchingState[j], "ok")
                    /\ \A h \in 1..(j - 1) :
                          \E g \in 1..(i - 1) : events[g] = Ev("execute", StartupOrder[h], "ok")
        /\ (pc = "execute" => current_state = MatchingState[Len(Executed) + 1])
\* all three commands were executed
C7_Witness ==
    /\ call = "startup"
    /\ Executed = StartupOrder

\* C8: after a startup() that returned false, the next startup() call
\* re-enters Device Discovery, and returns true if all its commands succeed.
C8_FailedStartupRetryable ==
    (StartupReturned /\ prev_call = "startup" /\ prev_result = "false") =>
        /\ Ev("transition", "DEVICE_DISCOVERY", "ok") \in Events
        /\ ((\A j \in 1..3 : ExecutedOk(StartupOrder[j])) => result = "true")

\* startup() never ends by raising to its caller
StartupNeverRaises == result # "raised"

\* C9: startup() never raises; every command failure, every exception of an
\* execute(), every rejected state transition and every exception of a
\* rollback() ends in startup() returning false.
C9_NeverRaises ==
    /\ result # "raised"
    /\ (/\ StartupReturned
        /\ \E e \in Events :
              \/ e.ev = "execute" /\ e.out # "ok"
              \/ e.ev = "transition" /\ e.out = "fail"
              \/ e.ev = "rollback" /\ e.out = "raise")
       => result = "false"

\* C10: when shutdown() has returned, the orchestration state is Shutdown,
\* no executed command is left to roll back and every adapter built has been
\* disconnected.
C10_ShutdownReachesShutdown ==
    (ShutdownReturned /\ result = "done") =>
        /\ current_state = "SHUTDOWN"
        /\ executed_commands = <<>>
        /\ built \subseteq disconnected

\* the time elapsed since the last failure when the last call was made
ElapsedAtCall == cb_last.at - cb_last.pre.last_fail_ts
CalledIn(st) == cb_last.pre.state = st

\* C11: a call made on a Closed breaker leaves it Open exactly when it is the
\* failure_threshold-th failed call in a row; a failed call that is not leaves
\* it Closed, and a successful call leaves it Closed with the failure count 0.
C11_OpensAfterThresholdFailures ==
    CalledIn("closed") =>
        /\ cb_last.invoked
        /\ (cb_last.outcome = "fail" /\ cb_streak >= failure_threshold => cb_state = "open")
        /\ (cb_last.outcome = "fail" /\ cb_streak < failure_threshold => cb_state = "closed")
        /\ (cb_last.outcome = "ok" => cb_state = "closed" /\ fail = 0)
\* the fifth failed call in a row opened the breaker
C11_Witness ==
    /\ CalledIn("closed")
    /\ cb_last.outcome = "fail"
    /\ cb_streak = failure_threshold
    /\ cb_state = "open"

\* C12: a call made while the breaker is Open and less than timeout seconds
\* have elapsed since the last failure is rejected, the wrapped operation is
\* not invoked, and state, failure count, success count and last-failure
\* timestamp are as before the call.
C12_OpenRejectsUnchanged ==
    (CalledIn("open") /\ ElapsedAtCall < timeout) =>
        /\ cb_last.outcome = "rejected"
        /\ ~cb_last.invoked
        /\ breaker = cb_last.pre
\* a call rejected one second before the timeout
C12_Witness ==
    /\ CalledIn("open")
    /\ ElapsedAtCall = timeout - 1
    /\ cb_last.outcome = "rejected"

\* C13 as stated: a call made on an Open breaker once timeout seconds or more
\* have elapsed since the last failure (elapsed >= timeout) is let through,
\* invokes the wrapped operation and moves the breaker to HalfOpen with the
\* success counter at 0.
C13_PermittedAtTimeout ==
    (CalledIn("open") /\ ElapsedAtCall >= timeout) =>
        /\ cb_last.invoked
        /\ cb_last.gated.state = "half_open"
        /\ cb_last.gated.ok = 0
\* C13 as amended: a call made on an Open breaker once more than timeout
\* seconds have elapsed since the last failure (elapsed > timeout) is let
\* through, invokes the wrapped operation and moves the breaker to HalfOpen
\* with the success counter at 0 before the operation runs; a call made at
\* elapsed = timeout exactly is still rejected.
C13_PermittedAfterTimeout ==
    /\ (CalledIn("open") /\ ElapsedAtCall > timeout) =>
          /\ cb_last.invoked
          /\ cb_last.gated = [cb_last.pre EXCEPT !.state = "half_open", !.ok = 0]
          /\ (cb_last.outcome = "ok" => cb_state = "half_open" /\ ok = 1)
          /\ (cb_last.outcome = "fail" => cb_state = "open")
    /\ (CalledIn("open") /\ ElapsedAtCall = timeout) =>
          /\ ~cb_last.invoked
          /\ cb_state = "open"
\* a call let through one second after the timeout, on a breaker whose
\* success counter was not 0
C13_Witness ==
    /\ CalledIn("open")
    /\ ElapsedAtCall = timeout + 1
    /\ cb_last.pre.ok > 0
    /\ cb_last.invoked
    /\ cb_last.gated.state = "half_open"

\* C14: a successful call made in HalfOpen closes the breaker, with failure
\* count and success count both 0, when it is the success_threshold-th
\* success since the breaker went HalfOpen; otherwise the breaker stays
\* HalfOpen.
C14_ClosesAfterThresholdSuccesses ==
    (cb_last.gated.state = "half_open" /\ cb_last.outcome = "ok") =>
        IF cb_ho_successes >= success_threshold
        THEN cb_state = "closed" /\ fail = 0 /\ ok = 0
        ELSE cb_state = "half_open"

\* C15: a failed call made in HalfOpen leaves the breaker Open with the
\* success counter at 0.
C15_HalfOpenFailureReopens ==
    (cb_last.gated.state = "half_open" /\ cb_last.outcome = "fail") =>
        /\ cb_state = "open"
        /\ ok = 0

(***************************************************************************)
(* BaseProtocolClient properties                                           *)
(***************************************************************************)
\* the design's order of the lifecycle steps
StepOrder == <<"validate", "initialize", "connect", "setup", "loop">>
\* the lifecycle steps the current start() has begun
LifecycleSteps == SelectSeq(steps, LAMBDA s : s # "cleanup")

\* C16: the steps a start() call has begun are the first steps of validate,
\* initialize, connect-with-retry, set up monitoring, sampling loop, in that
\* order; every step before a step that has begun returned without raising;
\* and after a validation failure no step but validate has been begun.
C16_StepsInOrder ==
    LET s == LifecycleSteps
    IN /\ Len(s) <= Len(StepOrder)
       /\ \A i \in 1..Len(s) :
            /\ s[i] = StepOrder[i]
            /\ \A j \in 1..(i - 1) : StepOrder[j] \in done
       /\ failed_step = "validate" => s = <<"validate">>
\* a start() that went through all five steps
C16_Witness ==
    /\ LifecycleSteps = StepOrder
    /\ {"validate", "initialize", "connect", "setup"} \subseteq done
    /\ start_pc = "process"
\* a start() that returned after its validation failed
C16_ValidationFailureReached ==
    /\ failed_step = "validate"
    /\ start_pc = "returned"

\* C17: when start() has returned, whatever ended it, cleanup was invoked
\* once, after its last lifecycle step, and ConnectionState is Disconnected.
C17_CleanupOnEveryExit ==
    start_pc = "returned" =>
        /\ Len(steps) = Len(LifecycleSteps) + 1
        /\ steps[Len(steps)] = "cleanup"
        /\ connection_state = "disconnected"
\* start() returned after connect-with-retry ran out of retries
C17_Witness ==
    /\ start_pc = "returned"
    /\ cwr_exhausted = "start"
    /\ failed_step = "connect"
    /\ connection_state = "disconnected"

\* C18: while stop() runs its cleanup and once it has returned, the sampling
\* loop of the start() call it was to stop has exited.
C18_StopWaitsForLoop ==
    (stop_pc \in {"cleanup", "returned"} /\ stop_start = starts) => ~InLoop

\* when connect-with-retry runs out of retries inside start(), the state is
\* Error until cleanup, the error goes to the error callback if there is
\* one, and start() is on its way out
ExhaustionInStartFailsLifecycle ==
    cwr_exhausted = "start" =>
        /\ start_pc \in {"cleanup", "returned"}
        /\ failed_step = "connect"
        /\ error_callback => on_error = "connect"
        /\ (start_pc = "cleanup" /\ stop_calls = 0) => connection_state = "error"

\* C19: connect-with-retry makes at most max_retries attempts; once it has
\* run out of retries, from start() or from the sampling loop, the lifecycle
\* has failed: the error went to the error callback, start() is in its
\* cleanup or has returned, and the sampling loop is not running.
C19_ExhaustionFailsLifecycle ==
    /\ attempts <= max_retries
    /\ cwr_exhausted # "none" =>
          /\ error_callback => on_error = "connect"
          /\ start_pc \in {"cleanup", "returned"}
          /\ ~InLoop

\* the waits for retry_delay = 1 and max_retry_delay = 60
C20_Waits == <<1, 2, 4, 8, 16, 32, 60>>

\* the wait after the n-th failed attempt in a row is
\* min(retry_delay * 2^(n-1), max_retry_delay): 1, 2, 4, 8, 16, 32, 60
BackoffDelayFormula ==
    start_pc = "backoff" =>
        LET n == failed_attempts
        IN /\ 1 <= n /\ n < max_retries
           /\ delay = Min(retry_delay * 2^(n - 1), max_retry_delay)
           /\ n <= Len(C20_Waits) => delay = C20_Waits[n]
\* the wait after the seventh failed attempt in a row
BackoffDelayCapReached ==
    /\ start_pc = "backoff"
    /\ failed_attempts = Len(C20_Waits)
    /\ delay = max_retry_delay

\* C20: during the wait after the n-th failed attempt in a row
\* (1 <= n < max_retries) the delay is min(retry_delay * 2^(n-1),
\* max_retry_delay), which is 1, 2, 4, 8, 16, 32, 60 for n = 1..7, and
\* ConnectionState is Reconnecting.
C20_BackoffDelay ==
    start_pc = "backoff" =>
        LET n == failed_attempts
        IN /\ 1 <= n /\ n < max_retries
           /\ delay = Min(retry_delay * 2^(n - 1), max_retry_delay)
           /\ n <= Len(C20_Waits) => delay = C20_Waits[n]
           /\ connection_state = "reconnecting"

\* once running was cleared during a backoff sleep, the connect-with-retry
\* that was sleeping makes no further connection attempt
NoAttemptAfterStoppedBackoff ==
    backoff_stopped => start_pc # "connect"
\* a connect-with-retry that was stopped in its backoff and has ended
StoppedBackoffEnded ==
    /\ backoff_stopped
    /\ cwr_from = "start"
    /\ start_pc = "setup"

\* C21: when stop is requested during a backoff wait, the wait does not go on
\* (no part of the delay goes by after the request), and the
\* connect-with-retry that was waiting makes no further connection attempt.
C21_BackoffUnblockedByStop ==
    /\ overwait = 0
    /\ backoff_stopped => start_pc # "connect"

\* C22: a data or error callback called from the main loop that raised left
\* ConnectionState as it was and the loop went on to its pause before the
\* next iteration; a data callback that raised caused no error callback
\* invocation.
C22_CallbackFailureIsolated ==
    /\ on_error # "data_callback"
    /\ last_dispatch.raised =>
          /\ last_dispatch.cs_kept
          /\ last_dispatch.kind = "data" =>
                last_dispatch.next = "pause" /\ last_dispatch.on_error_kept
          /\ last_dispatch.kind = "error" => last_dispatch.next = "err_pause"
\* the iteration after the one whose data callback raised is under way
C22_Witness ==
    /\ last_dispatch.kind = "data"
    /\ last_dispatch.raised
    /\ start_pc = "process"
    /\ iters = 2
    /\ connection_state = "connected"
\* an error callback raised in the main loop and the loop is pausing
C22_ErrorCallbackRaisedReached ==
    /\ last_dispatch.kind = "error"
    /\ last_dispatch.raised
    /\ start_pc = "err_pause"

\* C23: start() never raises to its caller: it is never left with an
\* exception propagating, and when it has returned after a lifecycle step
\* failed, the failure went to the error callback if there is one.
C23_StartNeverRaises ==
    /\ start_pc \notin {"cleanup_propagating", "raised"}
    /\ (start_pc = "returned" /\ failed_step # "none" /\ error_callback) =>
          on_error = failed_step
\* start() returned normally after _setup_monitoring raised
C23_Witness ==
    /\ start_pc = "returned"
    /\ failed_step = "setup"
    /\ error_callback
    /\ on_error = "setup"

(***************************************************************************)
(* Orchestration service properties                                        *)
(***************************************************************************)
\* the coroutines inside the main loop of the adapter of group g
LoopsOf(g) == {i \in Invocations : svc_pos[g][i] = "loop"}

\* C24: for every protocol group at most one main loop is running at any
\* moment: the loop of the start() that _handle_change replaces is over
\* before the loop of the start() it calls begins.
C24_OneLiveAdapterPerGroup ==
    \A g \in svc_clients : Cardinality(LoopsOf(g)) <= 1
\* the group named by the last event, 0 when it names none
NamedGroup == IF last_event.metadata THEN last_event.protocol_type ELSE 0
\* the step is one of notify() / _handle_change(), up to the first await of
\* the start() it calls
HandlerStep == svc_events' # svc_events \/ (h_pc' = "start" /\ h_pc = "stop")

\* C25: a step of notify() / _handle_change() changes the running flag and
\* the ConnectionState of no adapter but the one registered for the group
\* the event names, never changes the registry, and changes nothing at all
\* when the event has no metadata, names no group or names a group without
\* an adapter.
C25_TargetedReconfiguration ==
    [][HandlerStep =>
        /\ svc_clients' = svc_clients
        /\ \A g \in svc_clients :
              g # NamedGroup' =>
                 /\ svc_running'[g] = svc_running[g]
                 /\ svc_connection_state'[g] = svc_connection_state[g]
                 /\ svc_pos'[g] = svc_pos[g]
        /\ NamedGroup' \notin svc_clients => h_pc' = "idle"]_vars
\* the adapter of one group was stopped and started again while the other
\* group's adapter is connected and running
C25_Witness ==
    /\ h_pc = "start"
    /\ h_group = 1
    /\ NamedGroup = 1
    /\ svc_running[1]
    /\ svc_running[2]
    /\ svc_connection_state[2] = "connected"
\* an event naming a group without an adapter was ignored
C25_UnregisteredIgnored ==
    /\ NamedGroup = UnregisteredGroup
    /\ svc_events > 0
    /\ h_pc = "idle"

(***************************************************************************)
(* Event bus properties                                                    *)
(***************************************************************************)
\* C26: a publish() made while the queue holds max_queue_size events
\* returns at once without the event in the queue: no publisher is ever
\* waiting inside publish(), the event is dropped and the queue is as it was.
C26_PublishOnFullDrops ==
    /\ putters = <<>>
    /\ last_publish.full =>
          /\ last_publish.outcome = "dropped"
          /\ last_publish.queue_kept
          /\ \A i \in 1..Len(event_queue) : event_queue[i].n # last_publish.n
\* an event published on a full queue was put in the queue later
BlockedPublishEnqueuedLater ==
    /\ last_publish.full
    /\ \E i \in 1..Len(event_queue) : event_queue[i].n = last_publish.n

\* the observers subscribed when the current event was dequeued whose
\* interest set holds its change kind
InterestedSubscribers ==
    {o \in Range(subs_at_dequeue) : cur_event.change_type \in interests[o]}
\* every notification task of the current event is done
FanOutComplete ==
    /\ cur_event # NoBusEvent
    /\ \A i \in 1..Len(notification_tasks) : notification_tasks[i].st = "done"

SubscribedOnce ==
    \A i, j \in 1..Len(observers) : observers[i] = observers[j] => i = j

\* C28: a notify() that raised stops neither the other notifications of
\* the event nor the consuming loop: no task is cancelled by it, the loop
\* is not ended by it, and when the fan-out is complete every other
\* interested observer has been notified.
C28_ObserverIsolation ==
    /\ proc_pc # "dead"
    /\ raised_in # {} /\ proc_pc = "gather" =>
          \A i \in 1..Len(notification_tasks) : notification_tasks[i].st # "cancelled"
    /\ raised_in # {} /\ FanOutComplete =>
          \A o \in InterestedSubscribers : notified[o] = 1
\* one observer's notify() raised and another observer was notified of the
\* same event, the fan-out is complete
C28_Witness ==
    /\ FanOutComplete
    /\ \E o \in raised_in : \E q \in InterestedSubscribers \ raised_in : notified[q] = 1
\* after an event for which a notify() raised, a later event was dequeued
\* and delivered
LaterEventDelivered ==
    /\ raised_before
    /\ FanOutComplete
    /\ cur_event.n >= 2
    /\ \E o \in Observers : notified[o] = 1

(***************************************************************************)
(* Trigger properties                                                      *)
(***************************************************************************)
\* the calls before call k that returned true
TrueBefore(k) == {j \in 1..(k - 1) : tt_hist[j][2]}
\* the time of the last of them
LastTrueTime(k) ==
    tt_hist[CHOOSE j \in TrueBefore(k) : \A i \in TrueBefore(k) : i <= j][1]

\* C29: of the should_trigger calls made since construction or the last
\* reset, the first returns true, and every later one returns true exactly
\* when the time since the last call that returned true is at least the
\* interval; the time recorded is that of the last call that returned true.
C29_TimeIntervalTrigger ==
    /\ \A k \in 1..Len(tt_hist) :
          IF TrueBefore(k) = {}
          THEN k = 1 /\ tt_hist[k][2]
          ELSE tt_hist[k][2] <=> (tt_hist[k][1] - LastTrueTime(k) >= interval_seconds)
    /\ tt_hist # <<>> => last_trigger_time = <<LastTrueTime(Len(tt_hist) + 1)>>
    /\ tt_hist = <<>> => last_trigger_time = <<>>
\* interval 10: calls at t = 0, 5, 11 returned true, false, true
C29_Witness ==
    /\ interval_seconds = 10
    /\ tt_hist = <<<<0, TRUE>>, <<5, FALSE>>, <<11, TRUE>>>>
\* the first call after a reset returned true although less than the
\* interval had gone by since the last trigger
FirstCallAfterResetTriggers ==
    /\ tt_resets > 0
    /\ Len(tt_hist) = 1
    /\ tt_hist[1][2]
    /\ tt_now > 0
    /\ tt_now < interval_seconds

\* the pairs (previous, current) that are an edge of a mode
EdgesOf(mode) ==
    IF mode = "rising" THEN {<<FALSE, TRUE>>}
    ELSE IF mode = "falling" THEN {<<TRUE, FALSE>>}
    ELSE {<<FALSE, TRUE>>, <<TRUE, FALSE>>}

\* C30: of the evaluations made since construction or the last reset, the
\* first triggers exactly when its value is true, and every later one
\* exactly when the previous value and its own form an edge of the
\* configured mode.
C30_ConditionEdgeTrigger ==
    /\ Len(ct_fired) = Len(ct_values)
    /\ \A k \in 1..Len(ct_values) :
          ct_fired[k] <=> IF k = 1 THEN ct_values[1]
                          ELSE <<ct_values[k - 1], ct_values[k]>> \in EdgesOf(edge_type)
\* mode rising on [false, false, true, true, false, true] fired at the
\* third and the sixth evaluation only
C30_Witness ==
    /\ edge_type = "rising"
    /\ ct_values = <<FALSE, FALSE, TRUE, TRUE, FALSE, TRUE>>
    /\ ct_fired = <<FALSE, FALSE, TRUE, FALSE, FALSE, TRUE>>
\* mode falling: the first evaluation triggered on a true value
FallingFirstTrueTriggers ==
    /\ edge_type = "falling"
    /\ ct_values = <<TRUE>>
    /\ ct_fired = <<TRUE>>

(***************************************************************************)
(* Adapter properties: ConnectionState discipline                          *)
(***************************************************************************)
\* the transition table of the client state machine, restricted to the
\* five states an adapter's ConnectionState takes
adapter_table ==
    [disconnected |-> {"connecting"},
     connecting   |-> {"connected", "error"},
     connected    |-> {"disconnected"},
     reconnecting |-> {"connected", "error", "disconnected"},
     error        |-> {"connecting"}]

\* C33: every change of connection_state goes from a state to one of the
\* states the transition table allows after it.
C33_ConnectionStateFollowsTable ==
    [][connection_state' # connection_state =>
          connection_state' \in adapter_table[connection_state]]_vars

\* the task running start() is between two of its steps
LifecycleUnderWay == start_pc \notin {"idle", "returned", "raised"}
\* the step is one of the task running start()
LifecycleStep ==
    \/ start_pc' # start_pc
    \/ starts' # starts
    \/ attempts' # attempts
    \/ waited' # waited

\* C34: while the task running start() is between two of its steps, only
\* its own steps write connection_state and running.
C34_SingleWriter ==
    [][LifecycleUnderWay /\ (connection_state' # connection_state \/ running' # running)
          => LifecycleStep]_vars

\* the step polls the sample source: _process_data() is called, and
\* data_callback with what it returned
PollStep == start_pc = "process" /\ start_pc' # "process"

\* C35: once stop() has returned, and as long as start() has not been
\* called again, the sample source is not polled and data_callback is not
\* invoked.
C35_NoSamplesAfterStop ==
    [][stop_pc = "returned" /\ starts = stop_start /\ starts' = starts => ~PollStep]_vars

\* the step is a normal return of _connect_with_retry
ConnectWithRetryReturns ==
    /\ start_pc \in {"cwr_loop", "connect"}
    /\ start_pc' \in {"setup", "process"}

\* C38: _connect_with_retry returns normally only with connection_state
\* CONNECTED, so _setup_monitoring and _process_data follow it only in that
\* state.
C38_ConnectedOnNormalReturn ==
    [][ConnectWithRetryReturns => connection_state' = "connected"]_vars

(***************************************************************************)
(* Circuit breaker properties under overlapping calls                      *)
(***************************************************************************)
\* C37: the failure count is at least failure_threshold whenever the
\* breaker is Open or HalfOpen and below it whenever the breaker is Closed,
\* also while several calls through the breaker are under way.
C37_CounterInvariant ==
    /\ cb_state \in {"open", "half_open"} => fail >= failure_threshold
    /\ cb_state = "closed" => fail < failure_threshold
\* a HalfOpen breaker whose failure count would not reach the threshold at
\* the next failure
HalfOpenBelowThreshold ==
    /\ cb_state = "half_open"
    /\ fail + 1 < failure_threshold

(***************************************************************************)
(* Trigger properties: evaluation errors and the execution count           *)
(***************************************************************************)
\* C31: an evaluation of the condition expression that raised never
\* triggers, whatever the edge mode and the previous condition state.
C31_EvaluationErrorNeverTriggers ==
    \A k \in 1..Len(ct_errors) : ct_errors[k] => ~ct_fired[k]
\* an evaluation that raised as the first one did not trigger
FirstEvaluationErrorIgnored ==
    /\ Len(ct_errors) = 1
    /\ ct_errors[1]
    /\ ~ct_fired[1]

\* C32: no operation of a trigger lowers its execution_count.
C32_ExecutionCountMonotonic ==
    [][/\ tt_execution_count' >= tt_execution_count
       /\ ct_execution_count' >= ct_execution_count]_vars

(***************************************************************************)
(* Orchestration service properties: progress                              *)
(***************************************************************************)
\* C36: the orchestrator's notify() returns after it has handled a change
\* event naming a registered group, so that the bus, which waits for it,
\* can dequeue and deliver later events.
C36_NotifyReturns == (h_pc = "start") ~> (h_pc = "idle")
\* the start() awaited by _handle_change is inside its main loop, the
\* adapter running, notify() not returned
HandlerInsideMainLoop ==
    /\ h_pc = "start"
    /\ h_group \in svc_clients
    /\ svc_pos[h_group]["handler"] = "loop"
    /\ svc_running[h_group]

(***************************************************************************)
(* Orchestrator properties: repeated startup                               *)
(***************************************************************************)
\* C39: a startup() called after a startup() that returned True rolls back
\* no command and disconnects no adapter built by that earlier startup().
C39_RepeatedStartupKeepsAdapters ==
    call = "startup" /\ prev_call = "startup" /\ prev_result = "true" =>
        /\ \A i \in 1..Len(events) : events[i].ev # "rollback"
        /\ \A a \in built : a[1] = startups - 1 => a \notin disconnected

(***************************************************************************)
(* Event bus properties: delivery order                                    *)
(***************************************************************************)
\* C40: the consuming loop dequeues the events in the order of the publish()
\* calls (the n of an event is the number of its publish() call), so every
\* observer sees the events it is interested in in publish order.
C40_DeliveredInPublishOrder ==
    [][cur_event' # cur_event => cur_event'.n > cur_event.n]_vars

\* no observer is notified twice of the event being fanned out
NotifiedAtMostOnce == \A o \in Observers : notified[o] <= 1

\* the next event is dequeued only when the fan-out of the previous one is over
OneFanOutAtATime ==
    [][cur_event' # cur_event =>
          \A i \in 1..Len(notification_tasks) : notification_tasks[i].st = "done"]_vars

====
